---- MODULE Spec2Model ----
(***************************************************************************)
(* A model of the compilation-database transformer: parse_options (the    *)
(* Build Action assembler with its two flag-processing chains),            *)
(* parse_unique_log (skip filter and the four uniqueing policies) and      *)
(* SkipListHandler.  Strings are TLA+ strings; TLC evaluates Len, SubSeq   *)
(* and \o on them, which is what the string helpers below are built from.  *)
(***************************************************************************)
EXTENDS Naturals, Integers, Sequences, FiniteSets, TLC

VARIABLES
    \* ---- process-wide caches of ImplicitCompilerInfo
    compiler_versions,      \* compiler -> version info | FALSE
    compiler_isexecutable,  \* compiler -> BOOLEAN
    compiler_info,          \* compiler -> language -> key -> value
    \* ---- one run of parse_options
    entry,                  \* compilation_db_entry (a dict: its DOMAIN are the keys)
    gcc_command,            \* the split command
    details,                \* the action under construction
    using_clang,            \* using_clang_to_compile_and_analyze
    it,                     \* position of OptionIterator in gcc_command[1:]
    pc,                     \* "idle" | "loop" | "returned" | "raised"
    raised,                 \* the exception that left parse_options, or ""
    items,                  \* history: the positions the for loop handed out
    \* ---- one run of parse_unique_log
    compile_uniqueing,      \* "none" | "strict" | "alpha" | a regex
    analysis_skip_handler,  \* [present, skip]: None, or a SkipListHandler's rules
    pre_analysis_skip_handler,
    ctu_or_stats_enabled,
    py_method_identity,     \* the interpreter of this call compares bound methods
                            \* by the identity of self (by == otherwise)
    entries,                \* extend_compilation_database_entries(compilation_database)
    idx,                    \* the entry the for loop is at
    uniqued_build_actions,  \* the dict, in insertion order: <<[key, action]>>
    skipped_cmp_cmd_count,
    parsed,                 \* history: what each turn of the loop did
    upc,                    \* "idle" | "loop" | "returned" | "exit" | "raised"
    result,                 \* what the call left: the returned pair, the exit
                            \* status or the exception, and compiler_info.json
    \* ---- a SkipListHandler under test
    skip,                   \* self.__skip: <<[line, pattern]>>
    skip_file_lines,        \* self.__skip_file_lines
    source_asked,           \* the last argument of should_skip
    answer,                 \* its result (FALSE before the first call)
    \* ---- a sequence of parse_options calls in one process
    compiler_info_file,     \* the parameter of the call: None or a path
    compiler_info_json,     \* <report_dir>/compiler_info.json: [exists, contents,
                            \* probed]; probed: no record of it was loaded from a file
    version_query_log,      \* history: the compilers get_clangsa_version_func ran for
    find_executable_log,    \* history: the arguments of find_executable
    probe_log,              \* history: the compiler invocations of
                            \* ImplicitCompilerInfo.set: [compiler, probe, language]
    calls,                  \* history: what each call of parse_options did
    bpc,                    \* "idle" | "run" | "raised"
    \* ---- two threads, each in ImplicitCompilerInfo.set(details)
    threads,                \* thread -> [pc, details, probes]; probes is the
                            \* history of the compiler invocations of the thread
    \* ---- parse_options on the forms of one path flag
    path_case,              \* [compiler, flag, value], of None before the choice
    path_calls,             \* history: [form, entry, exc, action] of each call
    \* ---- extend_compilation_database_entries
    database,               \* the compilation_database it is called on
    extended                \* the list it returns

ivars == <<compiler_versions, compiler_isexecutable, compiler_info>>
bvars == <<compiler_info_file, compiler_info_json, version_query_log,
           find_executable_log, probe_log, calls, bpc>>
pvars == <<entry, gcc_command, details, using_clang, it, pc, raised, items>>
uvars == <<compile_uniqueing, analysis_skip_handler, pre_analysis_skip_handler,
           ctu_or_stats_enabled, py_method_identity, entries, idx,
           uniqued_build_actions, skipped_cmp_cmd_count, parsed, upc, result>>
svars == <<skip, skip_file_lines, source_asked, answer>>
cvars == <<threads>>
fvars == <<path_case, path_calls>>
xvars == <<database, extended>>
nvars == <<bvars, cvars, fvars, xvars>>
vars == <<ivars, pvars, uvars, svars, nvars>>

None == "None"

(***************************************************************************)
(* String helpers (str methods, os.path, shlex on words without quotes).   *)
(***************************************************************************)
StartsWith(s, p) == Len(s) >= Len(p) /\ SubSeq(s, 1, Len(p)) = p

EndsWith(s, p) == Len(s) >= Len(p) /\ SubSeq(s, Len(s) - Len(p) + 1, Len(s)) = p

Drop(s, n) == SubSeq(s, n + 1, Len(s))

CharAt(s, i) == SubSeq(s, i, i)

Contains(s, sub) ==
    \E i \in 1..(Len(s) + 1) :
        i + Len(sub) - 1 <= Len(s) /\ SubSeq(s, i, i + Len(sub) - 1) = sub

\* The position of the last occurrence of the one-character string c, or 0.
LastIndexOf(s, c) ==
    LET hits == {i \in 1..Len(s) : CharAt(s, i) = c}
    IN IF hits = {} THEN 0 ELSE CHOOSE i \in hits : \A j \in hits : j <= i

RECURSIVE StripLeft(_)
StripLeft(s) == IF Len(s) > 0 /\ CharAt(s, 1) = " " THEN StripLeft(Drop(s, 1)) ELSE s

RECURSIVE StripRight(_)
StripRight(s) ==
    IF Len(s) > 0 /\ CharAt(s, Len(s)) = " "
    THEN StripRight(SubSeq(s, 1, Len(s) - 1)) ELSE s

Strip(s) == StripRight(StripLeft(s))

\* str.split(sep) for a one-character separator: the fields, empty ones included.
RECURSIVE SplitOn(_, _, _, _)
SplitOn(s, sep, i, cur) ==
    IF i > Len(s) THEN <<cur>>
    ELSE IF CharAt(s, i) = sep THEN <<cur>> \o SplitOn(s, sep, i + 1, "")
    ELSE SplitOn(s, sep, i + 1, cur \o CharAt(s, i))

Split(s, sep) == SplitOn(s, sep, 1, "")

RECURSIVE JoinFrom(_, _, _)
JoinFrom(seq, sep, i) ==
    IF i > Len(seq) THEN ""
    ELSE IF i = Len(seq) THEN seq[i]
    ELSE seq[i] \o sep \o JoinFrom(seq, sep, i + 1)

\* sep.join(seq)
Join(seq, sep) == JoinFrom(seq, sep, 1)

\* shlex.split for a command of words separated by blanks (no quotes, no
\* escapes, no comments): the non-empty fields.
ShlexSplit(s) == SelectSeq(Split(s, " "), LAMBDA w : w /= "")

\* os.path.basename
Basename(p) == Drop(p, LastIndexOf(p, "/"))

\* os.path.splitext(p)[1]: from the last dot of the basename, unless only dots
\* precede it there.
SplitextExt(p) ==
    LET sepIndex == LastIndexOf(p, "/")
        dotIndex == LastIndexOf(p, ".")
    IN IF dotIndex > sepIndex
          /\ \E k \in (sepIndex + 1)..(dotIndex - 1) : CharAt(p, k) /= "."
       THEN Drop(p, dotIndex - 1)
       ELSE ""

\* os.path.join(a, b) of posixpath
PathJoin(a, b) ==
    IF StartsWith(b, "/") THEN b
    ELSE IF a = "" \/ EndsWith(a, "/") THEN a \o b
    ELSE a \o "/" \o b

\* The component loop of posixpath.normpath.
RECURSIVE NormComps(_, _, _, _)
NormComps(comps, i, initial_slashes, new_comps) ==
    IF i > Len(comps) THEN new_comps
    ELSE LET comp == comps[i]
         IN IF comp \in {"", "."}
            THEN NormComps(comps, i + 1, initial_slashes, new_comps)
            ELSE IF comp /= ".."
                    \/ (initial_slashes = 0 /\ Len(new_comps) = 0)
                    \/ (Len(new_comps) > 0 /\ new_comps[Len(new_comps)] = "..")
            THEN NormComps(comps, i + 1, initial_slashes, Append(new_comps, comp))
            ELSE IF Len(new_comps) > 0
            THEN NormComps(comps, i + 1, initial_slashes,
                           SubSeq(new_comps, 1, Len(new_comps) - 1))
            ELSE NormComps(comps, i + 1, initial_slashes, new_comps)

\* os.path.normpath of posixpath
Normpath(path) ==
    IF path = "" THEN "."
    ELSE LET initial_slashes ==
                 IF ~StartsWith(path, "/") THEN 0
                 ELSE IF StartsWith(path, "//") /\ ~StartsWith(path, "///") THEN 2
                 ELSE 1
             new_comps == NormComps(Split(path, "/"), 1, initial_slashes, <<>>)
             joined == Join(new_comps, "/")
             out == (IF initial_slashes = 2 THEN "//"
                     ELSE IF initial_slashes = 1 THEN "/" ELSE "") \o joined
         IN IF out = "" THEN "." ELSE out

\* The printable ASCII characters in code-point order: 32..95 and 97..126 (str
\* comparison is by code point).
AsciiTo95 ==
    " !\"#$%&'()*+,-./0123456789:;<=>?@ABCDEFGHIJKLMNOPQRSTUVWXYZ[\\]^_"

AsciiFrom97 == "abcdefghijklmnopqrstuvwxyz{|}~"

\* ord(c) of one of these characters
Ord(c) ==
    IF \E i \in 1..Len(AsciiTo95) : CharAt(AsciiTo95, i) = c
    THEN 31 + (CHOOSE i \in 1..Len(AsciiTo95) : CharAt(AsciiTo95, i) = c)
    ELSE 96 + (CHOOSE i \in 1..Len(AsciiFrom97) : CharAt(AsciiFrom97, i) = c)

\* str.__lt__
RECURSIVE StrLess(_, _)
StrLess(a, b) ==
    IF Len(b) = 0 THEN FALSE
    ELSE IF Len(a) = 0 THEN TRUE
    ELSE IF CharAt(a, 1) = CharAt(b, 1) THEN StrLess(Drop(a, 1), Drop(b, 1))
    ELSE Ord(CharAt(a, 1)) < Ord(CharAt(b, 1))

(***************************************************************************)
(* The flag tables.  A table of regular expressions that re.match tries as *)
(* one alternation is kept as its alternatives: a literal matches as a     *)
(* prefix of the token, a literal followed by $ matches the whole token.   *)
(***************************************************************************)
MatchesPrefixOf(item, prefixes) == \E p \in prefixes : StartsWith(item, p)

REPLACE_OPTIONS_MAP ==
    [o \in {"-mips32", "-mips64", "-mpowerpc", "-mpowerpc64"} |->
        CASE o = "-mips32" -> <<"-target", "mips", "-mips32">>
          [] o = "-mips64" -> <<"-target", "mips64", "-mips64">>
          [] o = "-mpowerpc" -> <<"-target", "powerpc">>
          [] o = "-mpowerpc64" -> <<"-target", "powerpc64">>]

IGNORED_OPTIONS_CLANG == {"-Werror", "-pedantic-errors", "-w"}

\* '(no-)?' is written out as both alternatives, '-g(.+)?$' as the prefix -g.
IGNORED_OPTIONS_GCC_PREFIXES ==
    {"-fallow-fetchr-insn", "-fcall-saved-", "-fcond-mismatch",
     "-fconserve-stack", "-fcrossjumping", "-fcse-follow-jumps",
     "-fcse-skip-blocks", "-ffixed-r2", "-fgcse-lm",
     "-fhoist-adjacent-loads", "-findirect-inlining", "-finline-limit",
     "-finline-local-initialisers", "-fipa-sra",
     "-fno-aggressive-loop-optimizations", "-fno-delete-null-pointer-checks",
     "-fno-jump-table", "-fno-keep-static-consts", "-fno-strength-reduce",
     "-fno-toplevel-reorder", "-fno-unit-at-a-time",
     "-fno-var-tracking-assignments", "-fobjc-link-runtime",
     "-fpartial-inlining", "-fpeephole2", "-fregmove", "-frename-registers",
     "-freorder-functions", "-frerun-cse-after-loop", "-fsched-spec",
     "-fstack-reuse", "-fthread-jumps", "-ftree-pre",
     "-ftree-switch-conversion", "-ftree-tail-merge", "-mabm", "-mno-abm",
     "-msdata", "-mno-sdata", "-mspe", "-mno-spe", "-mdsbt", "-mno-dsbt",
     "-mfixed-ssp", "-mno-fixed-ssp", "-mpointers-to-nested-functions",
     "-mno-pointers-to-nested-functions", "-mpcrel-func-addr",
     "-maccumulate-outgoing-args", "-mcall-aixdesc", "-mppa3-addr-bug",
     "-mtraceback=", "-mtext=", "-misa=", "-mfunction-return=",
     "-mindirect-branch-register", "-mindirect-branch=", "-mapcs",
     "-mno-sched-prolog", "-save-temps", "-Werror", "-pedantic-errors", "-w",
     "-g", "-flto", "-mxl", "-mfloat-gprs", "-mabi"}

IGNORED_OPTIONS_GCC_WHOLE ==
    {"-ffp", "-fr", "-fs", "-mstring", "-mno-string", "-mfix-cortex-m3-ldrd",
     "-mmultiple", "-msahf", "-mthumb-interwork", "-mupdate",
     "-fno-merge-const-bfstores", "-fno-ipa-sra", "-mno-thumb-interwork",
     "-DNDEBUG"}

\* IGNORED_OPTIONS_GCC.match(item)
IGNORED_OPTIONS_GCC(item) ==
    MatchesPrefixOf(item, IGNORED_OPTIONS_GCC_PREFIXES)
    \/ item \in IGNORED_OPTIONS_GCC_WHOLE

\* The dict in insertion order: the pattern, whether it ends in $, and the
\* number of parameters.
IGNORED_PARAM_OPTIONS ==
    << [pattern |-> "-install_name", whole |-> FALSE, arg_num |-> 1],
       [pattern |-> "-exported_symbols_list", whole |-> FALSE, arg_num |-> 1],
       [pattern |-> "-current_version", whole |-> FALSE, arg_num |-> 1],
       [pattern |-> "-compatibility_version", whole |-> FALSE, arg_num |-> 1],
       [pattern |-> "-init", whole |-> TRUE, arg_num |-> 1],
       [pattern |-> "-e", whole |-> TRUE, arg_num |-> 1],
       [pattern |-> "-seg1addr", whole |-> FALSE, arg_num |-> 1],
       [pattern |-> "-bundle_loader", whole |-> FALSE, arg_num |-> 1],
       [pattern |-> "-multiply_defined", whole |-> FALSE, arg_num |-> 1],
       [pattern |-> "-sectorder", whole |-> FALSE, arg_num |-> 3],
       [pattern |-> "--param", whole |-> TRUE, arg_num |-> 1],
       [pattern |-> "-u", whole |-> TRUE, arg_num |-> 1],
       [pattern |-> "--serialize-diagnostics", whole |-> FALSE, arg_num |-> 1],
       [pattern |-> "-framework", whole |-> FALSE, arg_num |-> 1],
       [pattern |-> "-filelist", whole |-> FALSE, arg_num |-> 1] >>

\* COMPILE_OPTIONS.match(item); '-O[1-3]' is written out.
COMPILE_OPTIONS(item) ==
    MatchesPrefixOf(item,
        {"-nostdinc", "-nostdinc++", "-pedantic", "-O1", "-O2", "-O3", "-Os",
         "-std=", "-stdlib=", "-f", "-m", "-Wno-", "--sysroot=",
         "--gcc-toolchain="})

\* The alternatives of COMPILE_OPTIONS_MERGED in the order re tries them
\* ('-[DIUF]' written out).
COMPILE_OPTIONS_MERGED_ALTERNATIVES ==
    <<"--sysroot", "--include", "-include", "-iquote", "-D", "-I", "-U", "-F",
      "-idirafter", "-isystem", "-macros", "-isysroot", "-iprefix",
      "-iwithprefix", "-iwithprefixbefore">>

\* The alternatives of INCLUDE_OPTIONS_MERGED ('-[IF]' written out).
INCLUDE_OPTIONS_MERGED_ALTERNATIVES ==
    <<"-iquote", "-I", "-F", "-isystem", "-iprefix", "-iwithprefix",
      "-iwithprefixbefore">>

\* m.group(0) of an alternation of literals matched at the start of item: the
\* first alternative that is a prefix of it, or None.
MatchGroup0(alternatives, item) ==
    LET hits == {k \in 1..Len(alternatives) : StartsWith(item, alternatives[k])}
    IN IF hits = {} THEN None
       ELSE alternatives[CHOOSE k \in hits : \A j \in hits : k <= j]

XCLANG_FLAGS_TO_SKIP ==
    {"-module-file-info", "-S", "-emit-llvm", "-emit-llvm-bc",
     "-emit-llvm-only", "-emit-llvm-uselists", "-rewrite-objc"}

\* PRECOMPILATION_OPTION.match(item): '-(E|M[G|T|Q|F|J|P|V|M]*)$'
PRECOMPILATION_OPTION(item) ==
    \/ item = "-E"
    \/ /\ StartsWith(item, "-M")
       /\ \A k \in 3..Len(item) :
              CharAt(item, k) \in {"G", "|", "T", "Q", "F", "J", "P", "V", "M"}

\* get_language(extension): the mapping, None for any other extension
get_language(extension) ==
    CASE extension = ".c" -> "c"
      [] extension \in {".cp", ".cpp", ".cxx", ".txx", ".cc", ".C", ".ii"} -> "c++"
      [] extension = ".m" -> "objective-c"
      [] extension = ".mm" -> "objective-c++"
      [] OTHER -> None

(***************************************************************************)
(* The flag processors.  flag_iterator is the pair (args, pos): args is     *)
(* gcc_command[1:] and args[pos] is flag_iterator.item.  A processor        *)
(* returns whether it took the item, the details and the position it        *)
(* leaves, and the exception that left it ("" for none): next() on the      *)
(* exhausted iterator raises StopIteration, item[0] of an empty token       *)
(* raises IndexError.                                                       *)
(***************************************************************************)
Taken(d, pos) == [matched |-> TRUE, details |-> d, pos |-> pos, exc |-> ""]

NotTaken(d, pos) == [matched |-> FALSE, details |-> d, pos |-> pos, exc |-> ""]

Raises(d, pos, exc) == [matched |-> FALSE, details |-> d, pos |-> pos, exc |-> exc]

\* next(flag_iterator) can advance
HasNext(args, pos) == pos + 1 <= Len(args)

collect_clang_compile_opts(args, pos, d) ==
    \* CLANG_OPTIONS is '.*': every item matches
    Taken([d EXCEPT !.analyzer_options = Append(@, args[pos])], pos)

collect_transform_xclang_opts(args, pos, d) ==
    IF args[pos] = "-Xclang"
    THEN IF ~HasNext(args, pos) THEN Raises(d, pos, "StopIteration")
         ELSE LET next_flag == args[pos + 1]
              IN IF next_flag \in XCLANG_FLAGS_TO_SKIP
                 THEN Taken(d, pos + 1)
                 ELSE Taken([d EXCEPT !.analyzer_options =
                                          @ \o <<"-Xclang", next_flag>>],
                            pos + 1)
    ELSE NotTaken(d, pos)

flags_with_path ==
    {"-I", "-idirafter", "-imultilib", "-iquote", "-isysroot", "-isystem",
     "-iwithprefix", "-iwithprefixbefore", "-sysroot", "--sysroot"}

\* A variant that resolves the path of the separate form only.
collect_transform_include_opts_apart_only(args, pos, d) ==
    LET flag == MatchGroup0(COMPILE_OPTIONS_MERGED_ALTERNATIVES, args[pos])
    IN IF flag = None THEN NotTaken(d, pos)
       ELSE LET together == Len(flag) /= Len(args[pos])
            IN IF ~together /\ ~HasNext(args, pos)
               THEN Raises(d, pos, "StopIteration")
               ELSE IF together
               THEN Taken([d EXCEPT !.analyzer_options = Append(@, args[pos])],
                          pos)
               ELSE Taken([d EXCEPT !.analyzer_options =
                              @ \o <<flag,
                                     IF flag \in flags_with_path
                                     THEN Normpath(PathJoin(d.directory,
                                                            args[pos + 1]))
                                     ELSE args[pos + 1]>>],
                          pos + 1)

collect_transform_include_opts(args, pos, d) ==
    LET flag == MatchGroup0(COMPILE_OPTIONS_MERGED_ALTERNATIVES, args[pos])
    IN IF flag = None THEN NotTaken(d, pos)
       ELSE LET together == Len(flag) /= Len(args[pos])
            IN IF ~together /\ ~HasNext(args, pos)
               THEN Raises(d, pos, "StopIteration")
               ELSE
    LET param == IF together THEN Drop(args[pos], Len(flag)) ELSE args[pos + 1]
        pos2 == IF together THEN pos ELSE pos + 1
        with_path == flag \in flags_with_path
        stripped == IF with_path /\ StartsWith(param, "=")
                    THEN Drop(param, 1) ELSE param
        together2 == IF with_path /\ StartsWith(param, "=")
                     THEN FALSE ELSE together
        param2 == IF with_path
                  THEN Normpath(PathJoin(d.directory, stripped))
                  ELSE param
    IN Taken([d EXCEPT !.analyzer_options =
                  IF together2 THEN Append(@, flag \o param2)
                  ELSE @ \o <<flag, param2>>],
             pos2)

collect_compile_opts(args, pos, d) ==
    IF COMPILE_OPTIONS(args[pos])
    THEN Taken([d EXCEPT !.analyzer_options = Append(@, args[pos])], pos)
    ELSE NotTaken(d, pos)

skip_sources(args, pos, d) ==
    IF Len(args[pos]) = 0 THEN Raises(d, pos, "IndexError")
    ELSE IF CharAt(args[pos], 1) /= "-" THEN Taken(d, pos)
    ELSE NotTaken(d, pos)

\* A variant in which -c sets the type only while none is set: a flag before
\* it would win.
determine_action_type_unless_set(args, pos, d) ==
    IF args[pos] = "-c"
    THEN Taken(IF d.action_type = None
               THEN [d EXCEPT !.action_type = "COMPILE"] ELSE d, pos)
    ELSE IF StartsWith(args[pos], "-print-prog-name")
    THEN Taken(IF d.action_type /= "COMPILE"
               THEN [d EXCEPT !.action_type = "INFO"] ELSE d, pos)
    ELSE IF PRECOMPILATION_OPTION(args[pos])
    THEN Taken(IF d.action_type /= "COMPILE"
               THEN [d EXCEPT !.action_type = "PREPROCESS"] ELSE d, pos)
    ELSE NotTaken(d, pos)

\* A variant in which the last of the flags that set a type decides.
determine_action_type_last_wins(args, pos, d) ==
    IF args[pos] = "-c"
    THEN Taken([d EXCEPT !.action_type = "COMPILE"], pos)
    ELSE IF StartsWith(args[pos], "-print-prog-name")
    THEN Taken([d EXCEPT !.action_type = "INFO"], pos)
    ELSE IF PRECOMPILATION_OPTION(args[pos])
    THEN Taken([d EXCEPT !.action_type = "PREPROCESS"], pos)
    ELSE NotTaken(d, pos)

determine_action_type(args, pos, d) ==
    IF args[pos] = "-c"
    THEN Taken([d EXCEPT !.action_type = "COMPILE"], pos)
    ELSE IF StartsWith(args[pos], "-print-prog-name")
    THEN Taken(IF d.action_type /= "COMPILE"
               THEN [d EXCEPT !.action_type = "INFO"] ELSE d, pos)
    ELSE IF PRECOMPILATION_OPTION(args[pos])
    THEN Taken(IF d.action_type /= "COMPILE"
               THEN [d EXCEPT !.action_type = "PREPROCESS"] ELSE d, pos)
    ELSE NotTaken(d, pos)

get_arch(args, pos, d) ==
    IF args[pos] = "-arch"
    THEN IF ~HasNext(args, pos) THEN Raises(d, pos, "StopIteration")
         ELSE Taken([d EXCEPT !.arch = args[pos + 1]], pos + 1)
    ELSE NotTaken(d, pos)

get_language_flag(args, pos, d) ==
    IF StartsWith(args[pos], "-x")
    THEN IF args[pos] = "-x"
         THEN IF ~HasNext(args, pos) THEN Raises(d, pos, "StopIteration")
              ELSE Taken([d EXCEPT !.lang = args[pos + 1]], pos + 1)
         ELSE Taken([d EXCEPT !.lang = Drop(args[pos], 2)], pos)
    ELSE NotTaken(d, pos)

get_output(args, pos, d) ==
    IF args[pos] = "-o"
    THEN IF ~HasNext(args, pos) THEN Raises(d, pos, "StopIteration")
         ELSE Taken([d EXCEPT !.output = args[pos + 1]], pos + 1)
    ELSE NotTaken(d, pos)

replace(args, pos, d) ==
    IF args[pos] \in DOMAIN REPLACE_OPTIONS_MAP
    THEN Taken([d EXCEPT !.analyzer_options = @ \o REPLACE_OPTIONS_MAP[args[pos]]],
               pos)
    ELSE NotTaken(d, pos)

skip_clang(args, pos, d) ==
    IF MatchesPrefixOf(args[pos], IGNORED_OPTIONS_CLANG)
    THEN Taken(d, pos) ELSE NotTaken(d, pos)

\* The first pattern of IGNORED_PARAM_OPTIONS, in the dict's order, that
\* matches the item, or 0.
IgnoredParamIndex(item) ==
    LET hits == {k \in 1..Len(IGNORED_PARAM_OPTIONS) :
                    IF IGNORED_PARAM_OPTIONS[k].whole
                    THEN item = IGNORED_PARAM_OPTIONS[k].pattern
                    ELSE StartsWith(item, IGNORED_PARAM_OPTIONS[k].pattern)}
    IN IF hits = {} THEN 0 ELSE CHOOSE k \in hits : \A j \in hits : k <= j

\* A variant that drops the flag and leaves its parameters to the loop.
skip_gcc_flag_only(args, pos, d) ==
    IF IGNORED_OPTIONS_GCC(args[pos]) THEN Taken(d, pos)
    ELSE IF IgnoredParamIndex(args[pos]) = 0 THEN NotTaken(d, pos)
    ELSE Taken(d, pos)

skip_gcc(args, pos, d) ==
    IF IGNORED_OPTIONS_GCC(args[pos]) THEN Taken(d, pos)
    ELSE LET k == IgnoredParamIndex(args[pos])
         IN IF k = 0 THEN NotTaken(d, pos)
            ELSE LET arg_num == IGNORED_PARAM_OPTIONS[k].arg_num
                 IN IF pos + arg_num > Len(args)
                    THEN Raises(d, Len(args), "StopIteration")
                    ELSE Taken(d, pos + arg_num)

clang_flag_collectors ==
    <<"skip_sources", "skip_clang", "collect_transform_xclang_opts",
      "get_output", "determine_action_type", "get_arch", "get_language",
      "collect_transform_include_opts", "collect_clang_compile_opts">>

gcc_flag_transformers ==
    <<"skip_gcc", "replace", "collect_compile_opts",
      "collect_transform_include_opts", "determine_action_type",
      "skip_sources", "get_arch", "get_language", "get_output">>

\* flag_processor(it, details)
CallProcessor(name, args, pos, d) ==
    CASE name = "skip_sources" -> skip_sources(args, pos, d)
      [] name = "skip_clang" -> skip_clang(args, pos, d)
      [] name = "collect_transform_xclang_opts" ->
             collect_transform_xclang_opts(args, pos, d)
      [] name = "get_output" -> get_output(args, pos, d)
      [] name = "determine_action_type" -> determine_action_type(args, pos, d)
      [] name = "get_arch" -> get_arch(args, pos, d)
      [] name = "get_language" -> get_language_flag(args, pos, d)
      [] name = "collect_transform_include_opts" ->
             collect_transform_include_opts(args, pos, d)
      [] name = "collect_clang_compile_opts" ->
             collect_clang_compile_opts(args, pos, d)
      [] name = "skip_gcc" -> skip_gcc(args, pos, d)
      [] name = "replace" -> replace(args, pos, d)
      [] name = "collect_compile_opts" -> collect_compile_opts(args, pos, d)

\* The inner loop of parse_options over flag_processors for the item at pos:
\* the first processor that takes the item ends it; an item no processor
\* takes is dropped.
RECURSIVE ProcessItem(_, _, _, _, _)
ProcessItem(flag_processors, k, args, pos, d) ==
    IF k > Len(flag_processors) THEN NotTaken(d, pos)
    ELSE LET after(r) == IF r.exc /= "" \/ r.matched THEN r
                         ELSE ProcessItem(flag_processors, k + 1, args, pos, d)
         IN after(CallProcessor(flag_processors[k], args, pos, d))

(***************************************************************************)
(* The machine the program runs on: what is on the search path, what the   *)
(* compilers print, which directories exist.                               *)
(***************************************************************************)
\* find_executable(compiler) is not None
ExecutablesOnPath == {"gcc", "g++", "clang", "ccache", "sdk-gcc"}

\* The compilers whose --version banner ClangVersionInfoParser.parse accepts.
ClangBinaries == {"clang"}

\* What the version cache holds for a compiler that is not a Clang.
False == "False"

\* clangsa_version.get(clang_binary, env): the version parsed from the banner of
\* a Clang (the ClangVersionInfo, written as text), False for another
\* compiler's banner, OSError when the binary cannot be run.
clangsa_version_get(clang_binary) ==
    IF clang_binary \notin ExecutablesOnPath THEN "OSError"
    ELSE IF clang_binary \in ClangBinaries
    THEN "clang version 9.0.0 InstalledDir: /usr/bin"
    ELSE False

\* The search list a GCC prints for `<compiler> <extra_opts> -E -x <language> - -v`
\* (what __parse_compiler_includes finds between the two marker lines).
CompilerSearchList(compiler, language, extra_opts) ==
    IF compiler = "sdk-gcc" THEN <<"/opt/sdk/c headers", "/opt/sdk/include">>
    ELSE IF compiler \notin {"gcc", "g++"} THEN <<>>
    ELSE (IF language = "c++" THEN <<"/usr/include/c++/9">> ELSE <<>>)
         \o (IF \E k \in 1..Len(extra_opts) : extra_opts[k] = "-m32"
             THEN <<"/usr/lib32/../include">> ELSE <<>>)
         \o <<"/usr/lib/gcc/include", "/usr/lib/gcc/include-fixed",
              "/usr/include">>

\* The value after "Target:" in the output of `<compiler> -v`.
CompilerTargetLine(compiler) ==
    IF compiler \in {"gcc", "g++"} THEN "x86_64-linux-gnu"
    ELSE IF compiler = "sdk-gcc" THEN "arm-none-eabi"
    ELSE ""

\* The text after CC_FOUND_STANDARD_VER# in the compiler's diagnostics.
CompilerFoundStandardVer(compiler, language) ==
    IF compiler \notin {"gcc", "g++", "sdk-gcc"} THEN ""
    ELSE IF language = "c" THEN "17" ELSE "14"

\* Directories that hold a file matching *intrin.h.
IntrinsicHeaderDirs == {"/usr/lib/gcc/include"}

\* Directories that exist.
ExistingDirs == {"/usr/lib/gcc/include", "/usr/lib/gcc/include-fixed",
                 "/usr/include", "/usr/include/c++/9"}

(***************************************************************************)
(* ImplicitCompilerInfo                                                    *)
(***************************************************************************)
\* dict[key] = value
DictSet(dict, key, value) ==
    [k \in DOMAIN dict \cup {key} |-> IF k = key THEN value ELSE dict[k]]

\* dict.get(key, default)
DictGet(dict, key, default) == IF key \in DOMAIN dict THEN dict[key] ELSE default

EmptyDict == [k \in {} |-> None]

\* ImplicitCompilerInfo.is_executable_compiler: the answer, the cache after it
\* and the calls of find_executable it made
is_executable_compiler(isexecutable, compiler) ==
    IF compiler \notin DOMAIN isexecutable
    THEN [value |-> compiler \in ExecutablesOnPath,
          compiler_isexecutable |->
              DictSet(isexecutable, compiler, compiler \in ExecutablesOnPath),
          find_executable |-> <<compiler>>]
    ELSE [value |-> isexecutable[compiler],
          compiler_isexecutable |-> isexecutable,
          find_executable |-> <<>>]

\* The position of the first flag that starts with --sysroot, or 0.
SysrootPos(compiler_flags) ==
    LET hits == {k \in 1..Len(compiler_flags) :
                     StartsWith(compiler_flags[k], "--sysroot")}
    IN IF hits = {} THEN 0 ELSE CHOOSE k \in hits : \A j \in hits : k <= j

\* compiler_flags[pos + 1] of filter_compiler_includes_extra_args raises
\* IndexError: a bare --sysroot is the last flag.
SysrootValueMissing(compiler_flags) ==
    LET pos == SysrootPos(compiler_flags)
    IN pos /= 0 /\ compiler_flags[pos] = "--sysroot" /\ pos = Len(compiler_flags)

filter_compiler_includes_extra_args(compiler_flags) ==
    LET extra_opts ==
            SelectSeq(compiler_flags,
                      LAMBDA f : MatchesPrefixOf(f, {"-m32", "-m64", "-std=",
                                                       "-stdlib=", "-nostdinc"}))
        pos == SysrootPos(compiler_flags)
    IN IF pos = 0 THEN extra_opts
       ELSE IF compiler_flags[pos] = "--sysroot"
       THEN Append(extra_opts, "--sysroot=" \o compiler_flags[pos + 1])
       ELSE Append(extra_opts, compiler_flags[pos])

get_compiler_includes(compiler, language, compiler_flags) ==
    LET normalised(include_dirs) ==
            [k \in 1..Len(include_dirs) |-> Normpath(include_dirs[k])]
    IN normalised(CompilerSearchList(compiler, language,
                      filter_compiler_includes_extra_args(compiler_flags)))

get_compiler_target(compiler) == CompilerTargetLine(compiler)

get_compiler_standard(compiler, language) ==
    LET standard == CompilerFoundStandardVer(compiler, language)
    IN IF standard = "" THEN ""
       ELSE IF standard = "94" THEN "-std=iso9899:199409"
       ELSE "-std=gnu" \o (IF language = "c" THEN "" ELSE "++") \o standard

\* The compiler invocations of one probe of compiler, in the order the
\* probing branch of ImplicitCompilerInfo.set makes them.
ProbeInvocations(compiler) ==
    <<[compiler |-> compiler, probe |-> "includes", language |-> "c"],
      [compiler |-> compiler, probe |-> "target", language |-> "c"],
      [compiler |-> compiler, probe |-> "standard", language |-> "c"],
      [compiler |-> compiler, probe |-> "includes", language |-> "c++"],
      [compiler |-> compiler, probe |-> "target", language |-> "c++"],
      [compiler |-> compiler, probe |-> "standard", language |-> "c++"]>>

\* A variant that also takes the profile of a failed probe for missing.
profile_is_missing_or_failed(info, compiler) ==
    \/ compiler \notin DOMAIN info
    \/ info[compiler] = EmptyDict
    \/ \A lang \in DOMAIN info[compiler] :
          DictGet(info[compiler][lang], "compiler_includes", <<>>) = <<>>

\* if not ICI.compiler_info.get(compiler): the cache holds no profile of the
\* compiler, or an empty one.
profile_is_missing(info, compiler) ==
    compiler \notin DOMAIN info \/ info[compiler] = EmptyDict

\* The probing branch of ImplicitCompilerInfo.set: the cache after it, the
\* compiler invocations it made and the exception that left it.  The cache is
\* probed for a compiler it holds no non-empty dict for; when the first probe
\* raises, the empty dict stays.
ProbeCompilerInfo(info, compiler, analyzer_options) ==
    IF ~profile_is_missing(info, compiler)
    THEN [exc |-> "", compiler_info |-> info, probes |-> <<>>]
    ELSE IF SysrootValueMissing(analyzer_options)
    THEN [exc |-> "IndexError",
          compiler_info |-> DictSet(info, compiler, EmptyDict),
          probes |-> <<>>]
    ELSE [exc |-> "",
          probes |-> ProbeInvocations(compiler),
          compiler_info |->
            DictSet(info, compiler,
                [lang \in {"c", "c++"} |->
                    [compiler_includes |->
                         get_compiler_includes(compiler, lang, analyzer_options),
                     target |-> get_compiler_target(compiler),
                     compiler_standard |->
                         get_compiler_standard(compiler, lang)]])]

\* The file <report_dir>/compiler_info.json of an earlier parse_unique_log.
InfoFilePath == "/reports/compiler_info.json"

\* compiler_info_file and os.path.exists(compiler_info_file)
info_file_exists(file) ==
    file /= None /\ file = InfoFilePath /\ compiler_info_json.exists

\* load_json_or_empty(filename, {}): the object the file holds
load_json_or_empty(filename) ==
    IF filename = InfoFilePath /\ compiler_info_json.exists
    THEN compiler_info_json.contents ELSE EmptyDict

\* The loop of load_compiler_info over the strings of compiler_includes: each
\* is split as a shell command, and the words other than -isystem are kept.
RECURSIVE LoadedIncludes(_, _)
LoadedIncludes(compiler_includes, k) ==
    IF k > Len(compiler_includes) THEN <<>>
    ELSE SelectSeq(ShlexSplit(compiler_includes[k]), LAMBDA x : x /= "-isystem")
         \o LoadedIncludes(compiler_includes, k + 1)

\* ImplicitCompilerInfo.load_compiler_info(filename, compiler): the cache
\* after it.
load_compiler_info(info, filename, compiler) ==
    LET contents == load_json_or_empty(filename)
        loaded(old, lang_data) ==
            IF lang_data = EmptyDict
            THEN DictSet(old, "compiler_includes", <<>>)
            ELSE DictSet(
                   DictSet(
                     DictSet(old, "compiler_includes",
                             LoadedIncludes(lang_data.compiler_includes, 1)),
                     "compiler_standard",
                     DictGet(lang_data, "compiler_standard", None)),
                   "target", DictGet(lang_data, "target", None))
        for_compiler(old, data) ==
            [lang \in DOMAIN old \cup {"c", "c++"} |->
                IF lang \in {"c", "c++"}
                THEN loaded(DictGet(old, lang, EmptyDict),
                            DictGet(data, lang, EmptyDict))
                ELSE old[lang]]
    IN IF compiler \notin DOMAIN contents THEN info
       ELSE DictSet(info, compiler,
                    for_compiler(DictGet(info, compiler, EmptyDict),
                                 contents[compiler]))

\* A variant in which the cached value replaces the value of the command.
set_details_from_ICI_overwrites(info, d, key, lang) ==
    IF profile_is_missing(info, d.compiler) THEN d
    ELSE IF lang \notin DOMAIN info[d.compiler]
            \/ info[d.compiler][lang] = EmptyDict
    THEN d
    ELSE [d EXCEPT ![key] =
             DictSet(@, lang, DictGet(info[d.compiler][lang], key, None))]

\* set_details_from_ICI(key, lang) of ImplicitCompilerInfo.set.  The truth
\* values: a missing key reads None, an empty list or string is false, a
\* stored profile and its two language records are non-empty dicts.
set_details_from_ICI(info, d, key, lang) ==
    LET parsed_value_is_true ==
            /\ lang \in DOMAIN d[key]
            /\ IF key = "compiler_includes" THEN d[key][lang] /= <<>>
               ELSE d[key][lang] \notin {None, ""}
    IN IF parsed_value_is_true THEN d
       ELSE IF profile_is_missing(info, d.compiler) THEN d
       ELSE LET compiler_data == info[d.compiler]
            IN IF lang \notin DOMAIN compiler_data \/ compiler_data[lang] = EmptyDict
               THEN d
               ELSE [d EXCEPT ![key] =
                        DictSet(@, lang, DictGet(compiler_data[lang], key, None))]

\* The six calls of set_details_from_ICI that end ImplicitCompilerInfo.set.
SetDetailsFromICI(info, d) ==
    LET for_lang(d0, lang) ==
            set_details_from_ICI(info,
                set_details_from_ICI(info,
                    set_details_from_ICI(info, d0, "compiler_includes", lang),
                    "compiler_standard", lang),
                "target", lang)
    IN for_lang(for_lang(d, "c"), "c++")

\* ImplicitCompilerInfo.set(details, compiler_info_file): the profile is
\* loaded from the file when it exists, the compiler is probed otherwise,
\* unless the cache holds it.  The details and the cache after the call.
ImplicitCompilerInfo_set(info, d) ==
    LET after(probe, loaded) ==
            IF probe.exc /= ""
            THEN [exc |-> probe.exc, details |-> d,
                  compiler_info |-> probe.compiler_info,
                  probes |-> probe.probes, loaded |-> loaded]
            ELSE [exc |-> "",
                  details |-> SetDetailsFromICI(probe.compiler_info, d),
                  compiler_info |-> probe.compiler_info,
                  probes |-> probe.probes, loaded |-> loaded]
    IN IF info_file_exists(compiler_info_file)
       THEN after([exc |-> "", probes |-> <<>>,
                   compiler_info |->
                       load_compiler_info(info, compiler_info_file, d.compiler)],
                  TRUE)
       ELSE after(ProbeCompilerInfo(info, d.compiler, d.analyzer_options), FALSE)

(***************************************************************************)
(* parse_options                                                           *)
(***************************************************************************)
\* gcc_toolchain.toolchain_in_args(analyzer_options): whether an option names
\* a custom toolchain
toolchain_in_args(analyzer_options) ==
    \E k \in 1..Len(analyzer_options) :
        Contains(analyzer_options[k], "--gcc-toolchain")

\* A variant that takes the first token whatever follows it.
determine_compiler_first_token(command, isexecutable) ==
    IF Len(command) = 0
    THEN [exc |-> "IndexError", compiler |-> None,
          compiler_isexecutable |-> isexecutable, find_executable |-> <<>>]
    ELSE [exc |-> "", compiler |-> command[1],
          compiler_isexecutable |-> isexecutable, find_executable |-> <<>>]

determine_compiler(command, isexecutable) ==
    IF Len(command) = 0
    THEN [exc |-> "IndexError", compiler |-> None,
          compiler_isexecutable |-> isexecutable, find_executable |-> <<>>]
    ELSE IF EndsWith(command[1], "ccache")
    THEN IF Len(command) < 2
         THEN [exc |-> "IndexError", compiler |-> None,
               compiler_isexecutable |-> isexecutable, find_executable |-> <<>>]
         ELSE LET found(r) ==
                      [exc |-> "",
                       compiler |-> IF r.value THEN command[2] ELSE command[1],
                       compiler_isexecutable |-> r.compiler_isexecutable,
                       find_executable |-> r.find_executable]
              IN found(is_executable_compiler(isexecutable, command[2]))
    ELSE [exc |-> "", compiler |-> command[1],
          compiler_isexecutable |-> isexecutable, find_executable |-> <<>>]

\* The details dict parse_options starts from.
EmptyDetails ==
    [analyzer_options |-> <<>>, compiler_includes |-> EmptyDict,
     compiler_standard |-> EmptyDict, analyzer_type |-> -1,
     original_command |-> "", directory |-> "", output |-> "", lang |-> None,
     arch |-> "", target |-> EmptyDict, source |-> "",
     action_type |-> None, compiler |-> None]

\* if not compiler_version_info and get_clangsa_version_func: the value read
\* from the cache is False both for a compiler the cache does not hold and
\* for one it holds False for.
version_is_queried(cached) == cached = False

\* parse_options up to the flag loop: the command, the compiler, its version
\* (queried unless the cache holds a Clang version for it) and the chain.
ParseOptionsBegin(e, versions, isexecutable) ==
    LET failed(dc, exc) ==
            [exc |-> exc, gcc_command |-> <<>>, details |-> EmptyDetails,
             using_clang |-> FALSE, compiler_versions |-> versions,
             compiler_isexecutable |-> dc.compiler_isexecutable,
             find_executable |-> dc.find_executable, version_queries |-> <<>>]
        \* CalledProcessError and OSError are caught: the version is False
        version_of(compiler, cached) ==
            IF ~version_is_queried(cached) THEN cached
            ELSE IF clangsa_version_get(compiler) = "OSError" THEN False
            ELSE clangsa_version_get(compiler)
        begun(command, original_command, dc, compiler_version_info) ==
            [exc |-> "",
             find_executable |-> dc.find_executable,
             version_queries |->
                 IF version_is_queried(DictGet(versions, dc.compiler, False))
                 THEN <<dc.compiler>> ELSE <<>>,
             gcc_command |-> command,
             details |-> [EmptyDetails EXCEPT
                             !.original_command = original_command,
                             !.directory = e.directory,
                             !.compiler = dc.compiler,
                             !.lang = IF Contains(Basename(dc.compiler), "++")
                                      THEN "c++" ELSE None],
             using_clang |-> compiler_version_info /= False,
             compiler_versions |->
                 DictSet(versions, dc.compiler, compiler_version_info),
             compiler_isexecutable |-> dc.compiler_isexecutable]
        with_compiler(command, original_command, dc) ==
            IF dc.exc /= "" THEN failed(dc, dc.exc)
            ELSE begun(command, original_command, dc,
                       version_of(dc.compiler, DictGet(versions, dc.compiler, False)))
        with_command(command, original_command) ==
            with_compiler(command, original_command,
                          determine_compiler(command, isexecutable))
    IN IF "arguments" \in DOMAIN e
       THEN with_command(e.arguments, Join(e.arguments, " "))
       ELSE IF "command" \in DOMAIN e
       THEN with_command(ShlexSplit(e.command), e.command)
       ELSE failed([compiler_isexecutable |-> isexecutable,
                    find_executable |-> <<>>], "KeyError")

flag_processors(clang) ==
    IF clang THEN clang_flag_collectors ELSE gcc_flag_transformers

is_not_include_fixed(dirname) == Basename(Normpath(dirname)) /= "include-fixed"

contains_no_intrinsic_headers(dirname) ==
    dirname \notin ExistingDirs \/ dirname \notin IntrinsicHeaderDirs

\* The loop of parse_options that drops the include options of directories
\* with intrinsic headers; next(analyzer_options) past the end raises.
RECURSIVE FilterIntrinOptions(_, _, _)
FilterIntrinOptions(analyzer_options, k, aop_without_intrin) ==
    IF k > Len(analyzer_options)
    THEN [exc |-> "", analyzer_options |-> aop_without_intrin]
    ELSE LET aopt == analyzer_options[k]
             flag == MatchGroup0(INCLUDE_OPTIONS_MERGED_ALTERNATIVES, aopt)
         IN IF flag = None
            THEN FilterIntrinOptions(analyzer_options, k + 1,
                                     Append(aop_without_intrin, aopt))
            ELSE LET together == Len(flag) /= Len(aopt)
                 IN IF ~together /\ k + 1 > Len(analyzer_options)
                    THEN [exc |-> "StopIteration",
                          analyzer_options |-> aop_without_intrin]
                    ELSE
    LET value == IF together THEN Drop(aopt, Len(flag)) ELSE analyzer_options[k + 1]
        k2 == IF together THEN k + 1 ELSE k + 2
        isdir == value \in ExistingDirs
        keep == (isdir /\ contains_no_intrinsic_headers(value)) \/ ~isdir
    IN FilterIntrinOptions(analyzer_options, k2,
           IF ~keep THEN aop_without_intrin
           ELSE IF together THEN Append(aop_without_intrin, aopt)
           ELSE aop_without_intrin \o <<aopt, value>>)

\* The parameters of parse_options the model fixes at their defaults.
keep_gcc_include_fixed == FALSE

keep_gcc_intrin == FALSE

\* A variant without the default: the type stays as the loop left it.
DefaultActionType_missing(d) == d

\* if details['action_type'] is None: details['action_type'] = COMPILE
DefaultActionType(d) ==
    IF d.action_type = None THEN [d EXCEPT !.action_type = "COMPILE"] ELSE d

\* A variant in which the extension does not override a COMPILE.
LanguageOrLink_unless_compile(d, lang) ==
    IF lang /= None
    THEN (IF d.lang = None THEN [d EXCEPT !.lang = lang] ELSE d)
    ELSE IF d.action_type = "COMPILE" THEN d
    ELSE [d EXCEPT !.action_type = "LINK"]

\* A variant in which the language of the file extension is always taken.
LanguageOrLink_extension_first(d, lang) ==
    IF lang /= None THEN [d EXCEPT !.lang = lang]
    ELSE [d EXCEPT !.action_type = "LINK"]

\* The language of the file extension fills an unset language; a file whose
\* extension has none makes the action a LINK.
LanguageOrLink(d, lang) ==
    IF lang /= None
    THEN (IF d.lang = None THEN [d EXCEPT !.lang = lang] ELSE d)
    ELSE [d EXCEPT !.action_type = "LINK"]

\* details['source'] = compilation_db_entry['file'], '' for '.'
SetSource(d, file) == [d EXCEPT !.source = IF file = "." THEN "" ELSE file]

\* details['target'][lang] = details['arch'] for the language of the extension
SetTarget(d, lang) == [d EXCEPT !.target = DictSet(@, lang, d.arch)]

\* A variant that ignores the toolchain option.
ici_is_consulted_despite_toolchain(d, clang) ==
    ~clang \/ info_file_exists(compiler_info_file)

\* if (not toolchain and not using_clang_to_compile_and_analyze) or
\*    (compiler_info_file and os.path.exists(compiler_info_file))
ici_is_consulted(d, clang) ==
    \/ ~toolchain_in_args(d.analyzer_options) /\ ~clang
    \/ info_file_exists(compiler_info_file)

\* The implicit compiler info is set unless a toolchain is given or the
\* compiler is a Clang, and whenever the compiler info file exists.  With
\* the result of ImplicitCompilerInfo.set: whether it was called, and the
\* details it was called on.
SetImplicitInfo(d, clang, info) ==
    LET called(r) == [exc |-> r.exc, details |-> r.details,
                      compiler_info |-> r.compiler_info, probes |-> r.probes,
                      loaded |-> r.loaded, called |-> TRUE, before |-> d]
    IN IF ici_is_consulted(d, clang)
       THEN called(ImplicitCompilerInfo_set(info, d))
       ELSE [exc |-> "", details |-> d, compiler_info |-> info,
             probes |-> <<>>, loaded |-> FALSE, called |-> FALSE, before |-> d]

FilterIncludeFixed(d) ==
    IF ~keep_gcc_include_fixed
    THEN [d EXCEPT !.compiler_includes =
             [l \in DOMAIN @ |-> SelectSeq(@[l], is_not_include_fixed)]]
    ELSE d

FilterIntrin(d) ==
    IF ~keep_gcc_intrin
    THEN [d EXCEPT !.compiler_includes =
             [l \in DOMAIN @ |-> SelectSeq(@[l], contains_no_intrinsic_headers)]]
    ELSE d

FilterOptions(d) ==
    IF ~keep_gcc_intrin
    THEN FilterIntrinOptions(d.analyzer_options, 1, <<>>)
    ELSE [exc |-> "", analyzer_options |-> d.analyzer_options]

\* parse_options after the flag loop: the default action type, the source,
\* language and LINK from the file extension, the target, the implicit
\* compiler info and the two filters.  The action and the cache after it.
ParseOptionsEnd(e, d0, clang, info) ==
    LET with_lang(d, lang) == SetTarget(LanguageOrLink(d, lang), lang)
        with_source(d) == with_lang(d, get_language(SplitextExt(d.source)))
        \* BuildAction(**details)
        built(ici, d, aop) ==
            [exc |-> IF ici.exc /= "" THEN ici.exc ELSE aop.exc,
             action |-> [d EXCEPT !.analyzer_options = aop.analyzer_options],
             compiler_info |-> ici.compiler_info,
             ici |-> ici]
        filtered(ici, d) == built(ici, d, FilterOptions(d))
        with_info(ici) == filtered(ici, FilterIntrin(FilterIncludeFixed(ici.details)))
    IN with_info(SetImplicitInfo(
           with_source(SetSource(DefaultActionType(d0), e.file)), clang, info))

\* The for loop of parse_options over OptionIterator(gcc_command[1:]) from the
\* position pos (the item the iterator gave last, 0 before the first).
RECURSIVE RunFlagLoop(_, _, _, _)
RunFlagLoop(processors, args, pos, d) ==
    IF pos >= Len(args) THEN [exc |-> "", details |-> d]
    ELSE LET after(r) == IF r.exc /= "" THEN [exc |-> r.exc, details |-> r.details]
                         ELSE RunFlagLoop(processors, args, r.pos, r.details)
         IN after(ProcessItem(processors, 1, args, pos + 1, d))

\* parse_options(entry, None, False, False, clangsa_version_get, env) as one
\* call: the exception that leaves it or the BuildAction it returns, and the
\* three caches after it.
parse_options(e, versions, isexecutable, info) ==
    LET not_reached(d) ==
            [exc |-> "", details |-> d, compiler_info |-> info, probes |-> <<>>,
             loaded |-> FALSE, called |-> FALSE, before |-> d]
        left(b, exc, action, ici) ==
            [exc |-> exc, action |-> action,
             compiler_versions |-> b.compiler_versions,
             compiler_isexecutable |-> b.compiler_isexecutable,
             compiler_info |-> ici.compiler_info,
             find_executable |-> b.find_executable,
             version_queries |-> b.version_queries,
             ici |-> ici]
        after_end(b, end) == left(b, end.exc, end.action, end.ici)
        after_loop(b, loop) ==
            IF loop.exc /= "" THEN left(b, loop.exc, loop.details,
                                        not_reached(loop.details))
            ELSE after_end(b, ParseOptionsEnd(e, loop.details, b.using_clang, info))
        after_begin(b) ==
            IF b.exc /= "" THEN left(b, b.exc, b.details, not_reached(b.details))
            ELSE after_loop(b, RunFlagLoop(flag_processors(b.using_clang),
                                           Tail(b.gcc_command), 0, b.details))
    IN after_begin(ParseOptionsBegin(e, versions, isexecutable))

(***************************************************************************)
(* parse_options, one flag at a time, on an entry with an argument vector. *)
(***************************************************************************)
MaxArgs == 3

ParseCompilers == {"gcc", "clang"}

ParseFlags ==
    {"-c", "-E", "-MM", "-print-prog-name=ld", "-o", "--param", "-Xclang", "a.c"}

ParseFiles == {"a.c", "lib/a.o"}

\* The sequences over S of length at most n.
RECURSIVE SeqsUpTo(_, _)
SeqsUpTo(S, n) ==
    IF n = 0 THEN {<<>>}
    ELSE LET grown(shorter) ==
                 shorter \cup {Append(q, x) : q \in {r \in shorter : Len(r) = n - 1},
                                              x \in S}
         IN grown(SeqsUpTo(S, n - 1))

ParseEntries ==
    {[directory |-> "/proj", file |-> f, arguments |-> <<c>> \o flags] :
        f \in ParseFiles, c \in ParseCompilers, flags \in SeqsUpTo(ParseFlags, MaxArgs)}

CachesInit ==
    /\ compiler_versions = EmptyDict
    /\ compiler_isexecutable = EmptyDict
    /\ compiler_info = EmptyDict

ParseIdle ==
    /\ entry = None
    /\ gcc_command = <<>>
    /\ details = EmptyDetails
    /\ using_clang = FALSE
    /\ it = 0
    /\ pc = "idle"
    /\ raised = ""
    /\ items = {}

\* parse_options is called and runs up to the flag loop.
ParseOptionsCall ==
    /\ pc = "idle"
    /\ \E e \in ParseEntries :
       \E b \in {ParseOptionsBegin(e, compiler_versions, compiler_isexecutable)} :
          /\ entry' = e
          /\ gcc_command' = b.gcc_command
          /\ details' = b.details
          /\ using_clang' = b.using_clang
          /\ compiler_versions' = b.compiler_versions
          /\ compiler_isexecutable' = b.compiler_isexecutable
          /\ pc' = IF b.exc = "" THEN "loop" ELSE "raised"
          /\ raised' = b.exc
    /\ it' = 0
    /\ items' = {}
    /\ UNCHANGED <<compiler_info, uvars, svars, nvars>>

\* One turn of the loop: for it in OptionIterator(gcc_command[1:])
FlagLoopStep ==
    /\ pc = "loop"
    /\ it < Len(Tail(gcc_command))
    /\ \E r \in {ProcessItem(flag_processors(using_clang), 1,
                             Tail(gcc_command), it + 1, details)} :
          /\ details' = r.details
          /\ it' = r.pos
          /\ pc' = IF r.exc = "" THEN "loop" ELSE "raised"
          /\ raised' = r.exc
    /\ items' = items \cup {it + 1}
    /\ UNCHANGED <<entry, gcc_command, using_clang, ivars, uvars, svars, nvars>>

\* The iterator is exhausted: the rest of parse_options, up to its return.
ParseOptionsReturn ==
    /\ pc = "loop"
    /\ it >= Len(Tail(gcc_command))
    /\ \E end \in {ParseOptionsEnd(entry, details, using_clang, compiler_info)} :
          /\ details' = end.action
          /\ compiler_info' = end.compiler_info
          /\ pc' = IF end.exc = "" THEN "returned" ELSE "raised"
          /\ raised' = end.exc
    /\ UNCHANGED <<entry, gcc_command, using_clang, it, items,
                   compiler_versions, compiler_isexecutable, uvars, svars, nvars>>

(***************************************************************************)
(* parse_options on commands that begin with a compiler or with a wrapper  *)
(* and a second token, and go on with up to MaxFlags tokens that set the   *)
(* language and the architecture.                                          *)
(***************************************************************************)
MaxFlags == 3

WrapperPrefixes ==
    {<<"gcc">>, <<"g++">>, <<"clang">>,
     <<"ccache", "gcc">>, <<"/usr/bin/ccache", "g++">>, <<"ccache", "nogcc">>}

LanguageFlags == {"-c", "-x", "c++", "-xc", "-arch", "armv7"}

LanguageFiles == {"a.c", "a.cpp", "a.o"}

LanguageEntries ==
    {[directory |-> "/proj", file |-> f, arguments |-> prefix \o flags] :
        f \in LanguageFiles, prefix \in WrapperPrefixes,
        flags \in SeqsUpTo(LanguageFlags, MaxFlags)}

\* parse_options is called on one of these entries and runs up to the flag
\* loop.
ParseOptionsCallLanguage ==
    /\ pc = "idle"
    /\ \E e \in LanguageEntries :
       \E b \in {ParseOptionsBegin(e, compiler_versions, compiler_isexecutable)} :
          /\ entry' = e
          /\ gcc_command' = b.gcc_command
          /\ details' = b.details
          /\ using_clang' = b.using_clang
          /\ compiler_versions' = b.compiler_versions
          /\ compiler_isexecutable' = b.compiler_isexecutable
          /\ pc' = IF b.exc = "" THEN "loop" ELSE "raised"
          /\ raised' = b.exc
    /\ it' = 0
    /\ items' = {}
    /\ UNCHANGED <<compiler_info, uvars, svars, nvars>>

(***************************************************************************)
(* parse_options on commands of gcc with up to MaxIgnored tokens, among    *)
(* them flags of IGNORED_PARAM_OPTIONS.                                    *)
(***************************************************************************)
MaxIgnored == 5

IgnoredFlags == {"--param", "-sectorder", "-framework", "-c", "-o", "-O2"}

IgnoredEntries ==
    {[directory |-> "/proj", file |-> "a.c", arguments |-> <<"gcc">> \o flags] :
        flags \in SeqsUpTo(IgnoredFlags, MaxIgnored)}

\* parse_options is called on one of these entries and runs up to the flag
\* loop.
ParseOptionsCallIgnored ==
    /\ pc = "idle"
    /\ \E e \in IgnoredEntries :
       \E b \in {ParseOptionsBegin(e, compiler_versions, compiler_isexecutable)} :
          /\ entry' = e
          /\ gcc_command' = b.gcc_command
          /\ details' = b.details
          /\ using_clang' = b.using_clang
          /\ compiler_versions' = b.compiler_versions
          /\ compiler_isexecutable' = b.compiler_isexecutable
          /\ pc' = IF b.exc = "" THEN "loop" ELSE "raised"
          /\ raised' = b.exc
    /\ it' = 0
    /\ items' = {}
    /\ UNCHANGED <<compiler_info, uvars, svars, nvars>>

(***************************************************************************)
(* SkipListHandler                                                         *)
(***************************************************************************)
\* rexpr.match(s) for rexpr = re.compile(fnmatch.translate(pattern)): * is any
\* run of characters, ? any one character, any other character itself, and
\* the expression ends in \Z, so all of s has to be matched.
RECURSIVE FnmatchFrom(_, _, _, _)
FnmatchFrom(pattern, i, s, j) ==
    IF i > Len(pattern) THEN j > Len(s)
    ELSE IF CharAt(pattern, i) = "*"
    THEN FnmatchFrom(pattern, i + 1, s, j)
         \/ (j <= Len(s) /\ FnmatchFrom(pattern, i, s, j + 1))
    ELSE /\ j <= Len(s)
         /\ CharAt(pattern, i) \in {"?", CharAt(s, j)}
         /\ FnmatchFrom(pattern, i + 1, s, j + 1)

rexpr_match(pattern, s) == FnmatchFrom(pattern, 1, s, 1)

\* [line.strip() for line in skip_file_content.splitlines() if line.strip()]
\* on the lines of the content.
stripped_lines(content_lines) ==
    SelectSeq([i \in 1..Len(content_lines) |-> Strip(content_lines[i])],
              LAMBDA line : line /= "")

check_line_format(skip_lines) ==
    SelectSeq(skip_lines,
              LAMBDA line : ~(Len(line) < 2 \/ CharAt(line, 1) \notin {"-", "+"}))

\* The (line, rexpr) pairs; a rexpr is kept as the pattern it was translated
\* from.
gen_regex(skip_lines) ==
    [i \in 1..Len(skip_lines) |->
        [line |-> skip_lines[i],
         pattern |-> Normpath(Strip(Drop(skip_lines[i], 1))) \o "*"]]

\* A variant in which the last matching rule decides.
should_skip_loop_last_match(rules, source, i) ==
    LET hits == {k \in i..Len(rules) : rexpr_match(rules[k].pattern, source)}
    IN /\ hits /= {}
       /\ CharAt(rules[CHOOSE k \in hits : \A j \in hits : j <= k].line, 1) = "-"

\* The for loop of should_skip from rule i on.
RECURSIVE should_skip_loop(_, _, _)
should_skip_loop(rules, source, i) ==
    IF i > Len(rules) THEN FALSE
    ELSE IF rexpr_match(rules[i].pattern, source)
    THEN CharAt(rules[i].line, 1) = "-"
    ELSE should_skip_loop(rules, source, i + 1)

should_skip(rules, source) ==
    IF rules = <<>> THEN FALSE ELSE should_skip_loop(rules, source, 1)

MaxRules == 2

SkipFileLines ==
    {"-/vendor/*", "+/vendor/keep.c", " -/src/gen?.c ", "/vendor",
     "+/src/../vendor/"}

SkipSources == {"/vendor/keep.c", "/vendor/x.c", "/src/gen1.c", "/src/main.c"}

\* The lists overwrite_skip_content is given: its lines are not stripped.
OverwriteLines ==
    {<<>>, <<"+/vendor/keep.c", "-/vendor">>, <<" -/src", "-/src/gen?.c">>}

\* SkipListHandler(): no skip file content.
SkipIdle ==
    /\ skip = <<>>
    /\ skip_file_lines = <<>>
    /\ source_asked = None
    /\ answer = FALSE

\* SkipListHandler(skip_file_content)
SkipListHandlerInit ==
    /\ \E content_lines \in SeqsUpTo(SkipFileLines, MaxRules) :
          /\ skip_file_lines' = stripped_lines(content_lines)
          /\ skip' = gen_regex(check_line_format(stripped_lines(content_lines)))
    /\ source_asked' = None
    /\ answer' = FALSE
    /\ UNCHANGED <<ivars, pvars, uvars, nvars>>

\* overwrite_skip_content(skip_lines); the answer of an earlier should_skip
\* is about the rules that were there before.
overwrite_skip_content ==
    /\ \E skip_lines \in OverwriteLines :
          skip' = gen_regex(check_line_format(skip_lines))
    /\ source_asked' = None
    /\ answer' = FALSE
    /\ UNCHANGED <<skip_file_lines, ivars, pvars, uvars, nvars>>

ShouldSkipCall ==
    /\ \E source \in SkipSources :
          /\ source_asked' = source
          /\ answer' = should_skip(skip, source)
    /\ UNCHANGED <<skip, skip_file_lines, ivars, pvars, uvars, nvars>>

(***************************************************************************)
(* parse_unique_log                                                        *)
(***************************************************************************)
SOURCE_EXTENSIONS == {".c", ".cc", ".cp", ".cpp", ".cxx", ".c++", ".o", ".so", ".a"}

\* str.lower of the characters above
Lower(str) ==
    LET low(c) == IF c /= "" /\ Ord(c) \in 65..90
                  THEN CharAt(AsciiFrom97, Ord(c) - 64) ELSE c
        RECURSIVE from(_)
        from(i) == IF i > Len(str) THEN "" ELSE low(CharAt(str, i)) \o from(i + 1)
    IN from(1)

\* The files a response file can name, with their contents.
ResponseFiles == [p \in {"/proj/rsp"} |-> "-DRSP -c r1.c r2.cpp"]

process_response_file(response_file) ==
    LET options == ShlexSplit(ResponseFiles[response_file])
    IN [options |-> options,
        sources |-> SelectSeq(options,
                       LAMBDA opt : ~StartsWith(opt, "-")
                                    /\ Lower(SplitextExt(opt)) \in SOURCE_EXTENSIONS)]

\* The loop over the options of one command: cmd and source_files after it.
RECURSIVE ExpandOptions(_, _, _, _, _)
ExpandOptions(options, i, source_dir, cmd, source_files) ==
    IF i > Len(options) THEN [cmd |-> cmd, source_files |-> source_files]
    ELSE IF StartsWith(options[i], "@")
    THEN LET response_file == PathJoin(source_dir, Drop(options[i], 1))
         IN IF response_file \notin DOMAIN ResponseFiles
            THEN ExpandOptions(options, i + 1, source_dir, cmd, source_files)
            ELSE LET r == process_response_file(response_file)
                 IN ExpandOptions(options, i + 1, source_dir, cmd \o r.options,
                                  source_files \o r.sources)
    ELSE ExpandOptions(options, i + 1, source_dir, Append(cmd, options[i]),
                       source_files)

RECURSIVE extend_compilation_database_entries(_)
extend_compilation_database_entries(compilation_database) ==
    IF compilation_database = <<>> THEN <<>>
    ELSE LET e == Head(compilation_database)
             rest == extend_compilation_database_entries(Tail(compilation_database))
         IN IF "command" \in DOMAIN e /\ Contains(e.command, "@")
            THEN LET x == ExpandOptions(ShlexSplit(e.command), 1, e.directory,
                                        <<>>, <<>>)
                     expanded == [e EXCEPT !.command = Join(x.cmd, " ")]
                 IN IF Contains(e.file, "@")
                    THEN [i \in 1..Len(x.source_files) |->
                             [expanded EXCEPT !.file = x.source_files[i]]] \o rest
                    ELSE <<expanded>> \o rest
            ELSE <<e>> \o rest

\* uniqueing_re.match(string) for an expression of characters that stand for
\* themselves, of . (any character) and of either followed by *; a match
\* starts at the first character and may end anywhere.
RECURSIVE ReMatchFrom(_, _, _, _)
ReMatchFrom(re, i, str, j) ==
    IF i > Len(re) THEN TRUE
    ELSE LET one == j <= Len(str) /\ CharAt(re, i) \in {".", CharAt(str, j)}
         IN IF i < Len(re) /\ CharAt(re, i + 1) = "*"
            THEN ReMatchFrom(re, i + 2, str, j)
                 \/ (one /\ ReMatchFrom(re, i, str, j + 1))
            ELSE one /\ ReMatchFrom(re, i + 1, str, j + 1)

uniqueing_re_match(re, str) == ReMatchFrom(re, 1, str, 1)

\* build_action_uniqueing
build_action_uniqueing(uniqueing) ==
    IF uniqueing = "alpha" THEN "SOURCE_ALPHA"
    ELSE IF uniqueing = "none" THEN "NONE"
    ELSE IF uniqueing = "strict" THEN "STRICT"
    ELSE "SOURCE_REGEX"

\* The dict uniqued_build_actions: its items in insertion order.
HasKey(dict, key) == \E i \in 1..Len(dict) : dict[i].key = key

Lookup(dict, key) == dict[CHOOSE i \in 1..Len(dict) : dict[i].key = key].action

\* A variant in which a key that is assigned again moves to the end.
Store_assigned_key_goes_last(dict, key, action) ==
    Append(SelectSeq(dict, LAMBDA item : item.key /= key),
           [key |-> key, action |-> action])

\* dict[key] = action: a new key goes last, a key already there keeps its place
Store(dict, key, action) ==
    IF HasKey(dict, key)
    THEN [i \in 1..Len(dict) |->
             IF dict[i].key = key THEN [key |-> key, action |-> action] ELSE dict[i]]
    ELSE Append(dict, [key |-> key, action |-> action])

Values(dict) == [i \in 1..Len(dict) |-> dict[i].action]

\* The key action.__hash__: the bound method of this action object.  Two of
\* them are equal when they are methods of the same object (an interpreter
\* that compares bound methods by identity) or of equal objects (one that
\* compares them by ==); object n is the action made from entry n.
bound_hash_method(action, object) ==
    [self |-> IF py_method_identity THEN object ELSE 0, content |-> action]

\* A variant that asks the analysis skip handler alone.
skip_before_parse_analysis_only(file) ==
    /\ analysis_skip_handler.present
    /\ should_skip(analysis_skip_handler.skip, file)

\* The condition under which the loop skips an entry before parse_options.
skip_before_parse(file) ==
    /\ analysis_skip_handler.present
    /\ should_skip(analysis_skip_handler.skip, file)
    /\ (~ctu_or_stats_enabled
        \/ (pre_analysis_skip_handler.present
            /\ should_skip(pre_analysis_skip_handler.skip, file)))

Kept(dict, action) == [dict |-> dict, exit |-> FALSE]

Put(dict, key, action) == [dict |-> Store(dict, key, action), exit |-> FALSE]

Exit(dict) == [dict |-> dict, exit |-> TRUE]

\* CompileActionUniqueingType.NONE
unique_none(dict, action, object) ==
    IF ~HasKey(dict, bound_hash_method(action, object))
    THEN Put(dict, bound_hash_method(action, object), action)
    ELSE Kept(dict, action)

\* A variant of STRICT that keeps the first action instead of exiting.
unique_strict_keeps_first(dict, action) ==
    IF ~HasKey(dict, action.source) THEN Put(dict, action.source, action)
    ELSE Kept(dict, action)

\* CompileActionUniqueingType.STRICT
unique_strict(dict, action) ==
    IF ~HasKey(dict, action.source) THEN Put(dict, action.source, action)
    ELSE Exit(dict)

\* A variant of SOURCE_ALPHA in which the later action wins a tie.
unique_alpha_later_wins_tie(dict, action) ==
    IF ~HasKey(dict, action.source) THEN Put(dict, action.source, action)
    ELSE IF ~StrLess(Lookup(dict, action.source).output, action.output)
    THEN Put(dict, action.source, action)
    ELSE Kept(dict, action)

\* CompileActionUniqueingType.SOURCE_ALPHA
unique_alpha(dict, action) ==
    IF ~HasKey(dict, action.source) THEN Put(dict, action.source, action)
    ELSE IF StrLess(action.output, Lookup(dict, action.source).output)
    THEN Put(dict, action.source, action)
    ELSE Kept(dict, action)

\* A variant of SOURCE_REGEX in which a matching action always replaces the
\* kept one.
unique_regex_match_replaces(dict, action, re) ==
    IF ~HasKey(dict, action.source) THEN Put(dict, action.source, action)
    ELSE IF uniqueing_re_match(re, action.original_command)
    THEN Put(dict, action.source, action)
    ELSE Kept(dict, action)

\* CompileActionUniqueingType.SOURCE_REGEX
unique_regex(dict, action, re) ==
    IF ~HasKey(dict, action.source) THEN Put(dict, action.source, action)
    ELSE IF uniqueing_re_match(re, action.original_command)
            /\ ~uniqueing_re_match(re, Lookup(dict, action.source).original_command)
    THEN Put(dict, action.source, action)
    ELSE IF uniqueing_re_match(re, action.original_command)
            /\ uniqueing_re_match(re, Lookup(dict, action.source).original_command)
    THEN Exit(dict)
    ELSE Kept(dict, action)

\* The policy of this call on an action that passed the two filters: the
\* dict after it, and whether sys.exit(1) was called.
unique_action(dict, action, object) ==
    CASE build_action_uniqueing(compile_uniqueing) = "NONE" ->
             unique_none(dict, action, object)
      [] build_action_uniqueing(compile_uniqueing) = "STRICT" ->
             unique_strict(dict, action)
      [] build_action_uniqueing(compile_uniqueing) = "SOURCE_ALPHA" ->
             unique_alpha(dict, action)
      [] build_action_uniqueing(compile_uniqueing) = "SOURCE_REGEX" ->
             unique_regex(dict, action, compile_uniqueing)

\* A variant that filters on the language alone.
passes_filters_language_only(action) == action.lang /= None

\* if not action.lang: continue; if action.action_type != COMPILE: continue
passes_filters(action) == action.lang /= None /\ action.action_type = "COMPILE"

\* A variant that takes a ValueError alone for an invalid database.
is_invalid_database_error_value_only(exc) == exc = "ValueError"

\* except (ValueError, KeyError, TypeError) as ex
is_invalid_database_error(exc) == exc \in {"ValueError", "KeyError", "TypeError"}

MaxBatch == 2

UniqueEntries ==
    {[directory |-> "/proj", file |-> "a.c", command |-> "gcc -c a.c -o b.o"],
     [directory |-> "/proj", file |-> "./a.c", command |-> "g++ -c a.c -o a.o"],
     [directory |-> "/proj", file |-> "a.c", command |-> "clang -c a.c -o a.o"],
     [directory |-> "/proj", file |-> "a.c", command |-> "gcc -E a.c"],
     [directory |-> "/proj", file |-> "gen/b.o", command |-> "gcc gen/b.o -c"],
     [directory |-> "/proj", file |-> "gen/g.c", command |-> "gcc gen/g.c"]}

UniqueingModes == {"none", "strict", "alpha", ".*-o a"}

NoHandler == [present |-> FALSE, skip |-> <<>>]

Handler(content_lines) ==
    [present |-> TRUE,
     skip |-> gen_regex(check_line_format(stripped_lines(content_lines)))]

AnalysisHandlers == {NoHandler, Handler(<<"-/proj/gen">>)}

PreAnalysisHandlers == {NoHandler, Handler(<<"-*.o">>)}

NoResult ==
    [actions |-> <<>>, skipped |-> 0, status |-> 0, why |-> "",
     compiler_info_out |-> EmptyDict]

UniqueIdle ==
    /\ compile_uniqueing = "none"
    /\ analysis_skip_handler = NoHandler
    /\ pre_analysis_skip_handler = NoHandler
    /\ ctu_or_stats_enabled = FALSE
    /\ py_method_identity = FALSE
    /\ entries = <<>>
    /\ idx = 0
    /\ uniqued_build_actions = <<>>
    /\ skipped_cmp_cmd_count = 0
    /\ parsed = <<>>
    /\ upc = "idle"
    /\ result = NoResult

\* parse_unique_log is called; it runs up to the for loop.
ParseUniqueLogCall ==
    /\ upc = "idle"
    /\ \E compilation_database \in SeqsUpTo(UniqueEntries, MaxBatch) :
          entries' = extend_compilation_database_entries(compilation_database)
    /\ compile_uniqueing' \in UniqueingModes
    /\ analysis_skip_handler' \in AnalysisHandlers
    /\ pre_analysis_skip_handler' \in PreAnalysisHandlers
    /\ ctu_or_stats_enabled' \in BOOLEAN
    /\ py_method_identity' \in BOOLEAN
    /\ idx' = 1
    /\ uniqued_build_actions' = <<>>
    /\ skipped_cmp_cmd_count' = 0
    /\ parsed' = <<>>
    /\ upc' = "loop"
    /\ UNCHANGED <<result, ivars, pvars, svars, nvars>>

\* One turn of the for loop over the entries.
ParseUniqueLogStep ==
    /\ upc = "loop"
    /\ idx <= Len(entries)
    /\ \E file \in {Normpath(PathJoin(entries[idx].directory, entries[idx].file))} :
       \E e \in {[entries[idx] EXCEPT !.file = file]} :
       \E turn \in {[index |-> idx, file |-> file, skipped |-> FALSE,
                     passed |-> FALSE, exc |-> "", action |-> EmptyDetails]} :
          /\ entries' = [entries EXCEPT ![idx] = e]
          /\ IF skip_before_parse(file)
             THEN /\ skipped_cmp_cmd_count' = skipped_cmp_cmd_count + 1
                  /\ parsed' = Append(parsed, [turn EXCEPT !.skipped = TRUE])
                  /\ idx' = idx + 1
                  /\ UNCHANGED <<uniqued_build_actions, upc, result, ivars>>
             ELSE \E p \in {parse_options(e, compiler_versions,
                                          compiler_isexecutable, compiler_info)} :
                     /\ compiler_versions' = p.compiler_versions
                     /\ compiler_isexecutable' = p.compiler_isexecutable
                     /\ compiler_info' = p.compiler_info
                     /\ parsed' = Append(parsed,
                            [turn EXCEPT !.passed = TRUE, !.exc = p.exc,
                                         !.action = IF p.exc = "" THEN p.action
                                                    ELSE EmptyDetails])
                     /\ UNCHANGED skipped_cmp_cmd_count
                     /\ IF is_invalid_database_error(p.exc)
                        THEN \* except: 'The compile database is not valid.'
                             /\ upc' = "exit"
                             /\ result' = [result EXCEPT !.status = 1,
                                                         !.why = "not valid"]
                             /\ UNCHANGED <<uniqued_build_actions, idx>>
                        ELSE IF p.exc /= ""
                        THEN \* any other exception leaves parse_unique_log
                             /\ upc' = "raised"
                             /\ result' = [result EXCEPT !.why = p.exc]
                             /\ UNCHANGED <<uniqued_build_actions, idx>>
                        ELSE IF ~passes_filters(p.action)
                        THEN /\ idx' = idx + 1
                             /\ UNCHANGED <<uniqued_build_actions, upc, result>>
                        ELSE \E u \in {unique_action(uniqued_build_actions,
                                                     p.action, idx)} :
                                IF u.exit
                                THEN /\ upc' = "exit"
                                     /\ result' =
                                            [result EXCEPT
                                                !.status = 1,
                                                !.why = "uniqueing failed"]
                                     /\ UNCHANGED <<uniqued_build_actions, idx>>
                                ELSE /\ uniqued_build_actions' = u.dict
                                     /\ idx' = idx + 1
                                     /\ UNCHANGED <<upc, result>>
    /\ UNCHANGED <<compile_uniqueing, analysis_skip_handler,
                   pre_analysis_skip_handler, ctu_or_stats_enabled,
                   py_method_identity, pvars, svars, nvars>>

\* After the loop: compiler_info.json is written and the pair is returned.
ParseUniqueLogReturn ==
    /\ upc = "loop"
    /\ idx > Len(entries)
    /\ upc' = "returned"
    /\ result' = [result EXCEPT !.actions = Values(uniqued_build_actions),
                                !.skipped = skipped_cmp_cmd_count,
                                !.compiler_info_out = compiler_info]
    /\ UNCHANGED <<compile_uniqueing, analysis_skip_handler,
                   pre_analysis_skip_handler, ctu_or_stats_enabled,
                   py_method_identity, entries, idx, uniqued_build_actions,
                   skipped_cmp_cmd_count, parsed, ivars, pvars, svars, nvars>>

(***************************************************************************)
(* parse_unique_log on databases of up to MaxRun entries, among them an    *)
(* entry without a command and one with both forms of it, with no skip     *)
(* file.                                                                   *)
(***************************************************************************)
MaxRun == 3

RunEntries ==
    {[directory |-> "/proj", file |-> "a.c", command |-> "gcc -c a.c -o b.o"],
     [directory |-> "/proj", file |-> "b.c", command |-> "gcc -c b.c -o b.o"],
     [directory |-> "/proj", file |-> "a.c", command |-> "gcc -c a.c -o a.o"],
     [directory |-> "/proj", file |-> "c.c"],
     [directory |-> "/proj", file |-> "c.c", command |-> "gcc -E c.c",
      arguments |-> <<"gcc", "-c", "c.c">>]}

\* parse_unique_log is called on one of these databases; it runs up to the
\* for loop.
ParseUniqueLogCallRun ==
    /\ upc = "idle"
    /\ \E compilation_database \in SeqsUpTo(RunEntries, MaxRun) :
          entries' = extend_compilation_database_entries(compilation_database)
    /\ compile_uniqueing' \in UniqueingModes
    /\ py_method_identity' \in BOOLEAN
    /\ analysis_skip_handler' = NoHandler
    /\ pre_analysis_skip_handler' = NoHandler
    /\ ctu_or_stats_enabled' = FALSE
    /\ idx' = 1
    /\ uniqued_build_actions' = <<>>
    /\ skipped_cmp_cmd_count' = 0
    /\ parsed' = <<>>
    /\ upc' = "loop"
    /\ UNCHANGED <<result, ivars, pvars, svars, nvars>>

(***************************************************************************)
(* A process that calls parse_options entry after entry, as the loop of    *)
(* parse_unique_log does, over the caches of ImplicitCompilerInfo; every   *)
(* run has its compiler_info_file and ends by writing compiler_info.json.  *)
(***************************************************************************)
MaxCalls == 2

BatchEntries ==
    {[directory |-> "/proj", file |-> "a.c", command |-> "gcc -c a.c"],
     [directory |-> "/proj", file |-> "a.c", command |-> "gcc -m32 -c a.c"],
     [directory |-> "/proj", file |-> "a.c", command |-> "gcc -arch armv7 a.c"],
     [directory |-> "/proj", file |-> "a.c", command |-> "gcc -D --sysroot"],
     [directory |-> "/proj", file |-> "a.cpp", command |-> "g++ -c a.cpp"],
     [directory |-> "/proj", file |-> "a.c", command |-> "ccache gcc -c a.c"],
     [directory |-> "/proj", file |-> "a.c", command |-> "cc -c a.c"],
     [directory |-> "/proj", file |-> "a.c", command |-> "sdk-gcc -c a.c"],
     [directory |-> "/proj", file |-> "a.c", command |-> "clang -c a.c"],
     [directory |-> "/proj", file |-> "a.c",
      command |-> "clang --gcc-toolchain=/opt/t -c a.c"],
     [directory |-> "/proj", file |-> "a.c",
      command |-> "gcc --gcc-toolchain=/opt/t -c a.c"]}

CompilerInfoFiles == {None, InfoFilePath}

NoInfoFile == [exists |-> FALSE, contents |-> EmptyDict, probed |-> TRUE]

BatchIdle ==
    /\ compiler_info_file = None
    /\ compiler_info_json = NoInfoFile
    /\ version_query_log = <<>>
    /\ find_executable_log = <<>>
    /\ probe_log = <<>>
    /\ calls = <<>>
    /\ bpc = "idle"

\* A run begins: parse_unique_log is called with its compiler_info_file.
BatchStart ==
    /\ bpc = "idle"
    /\ Len(calls) < MaxCalls
    /\ compiler_info_file' \in CompilerInfoFiles
    /\ bpc' = "run"
    /\ UNCHANGED <<compiler_info_json, version_query_log, find_executable_log,
                   probe_log, calls, ivars, pvars, uvars, svars, cvars, fvars, xvars>>

\* The next entry of the run: parse_options(entry, compiler_info_file, False,
\* False, clangsa_version_get, env).  An exception leaves the run.
AssembleCall ==
    /\ bpc = "run"
    /\ Len(calls) < MaxCalls
    /\ \E e \in BatchEntries :
       \E p \in {parse_options(e, compiler_versions, compiler_isexecutable,
                               compiler_info)} :
          /\ compiler_versions' = p.compiler_versions
          /\ compiler_isexecutable' = p.compiler_isexecutable
          /\ compiler_info' = p.compiler_info
          /\ version_query_log' = version_query_log \o p.version_queries
          /\ find_executable_log' = find_executable_log \o p.find_executable
          /\ probe_log' = probe_log \o p.ici.probes
          /\ calls' = Append(calls,
                 [entry |-> e, compiler_info_file |-> compiler_info_file,
                  file_exists |-> info_file_exists(compiler_info_file),
                  exc |-> p.exc, action |-> p.action,
                  version_queries |-> p.version_queries,
                  find_executable |-> p.find_executable,
                  ici |-> p.ici,
                  compiler_info_before |-> compiler_info])
          /\ bpc' = IF p.exc = "" THEN "run" ELSE "raised"
    /\ UNCHANGED <<compiler_info_file, compiler_info_json, pvars, uvars, svars,
                   cvars, fvars, xvars>>

\* The run ends: json.dump(ImplicitCompilerInfo.get(), f)
BatchEnd ==
    /\ bpc = "run"
    /\ compiler_info_json' =
           [exists |-> TRUE, contents |-> compiler_info,
            probed |-> \A k \in 1..Len(calls) : ~calls[k].ici.loaded]
    /\ bpc' = "idle"
    /\ UNCHANGED <<compiler_info_file, version_query_log, find_executable_log,
                   probe_log, calls, ivars, pvars, uvars, svars, cvars, fvars, xvars>>

(***************************************************************************)
(* ImplicitCompilerInfo.set(details) in two threads of one process, without *)
(* a compiler info file.  A thread can be preempted between any two        *)
(* statements; every compiler invocation and the store of its result is    *)
(* one step.                                                               *)
(***************************************************************************)
Threads == {"A", "B"}

\* The details the threads call ImplicitCompilerInfo.set on.
ConcurrentDetails ==
    {[EmptyDetails EXCEPT !.compiler = c, !.analyzer_options = o,
                          !.directory = "/proj", !.source = "a.c"] :
        c \in {"gcc", "g++"}, o \in {<<>>, <<"-m32">>}}

ThreadsIdle ==
    threads = [t \in Threads |->
                  [pc |-> "idle", step |-> 0, details |-> EmptyDetails,
                   probes |-> <<>>]]

\* The key of the language record a probe is stored under.
ProbeKey(probe) ==
    CASE probe = "includes" -> "compiler_includes"
      [] probe = "target" -> "target"
      [] probe = "standard" -> "compiler_standard"

\* What the compiler invocation gives.
ProbeValue(invocation, analyzer_options) ==
    CASE invocation.probe = "includes" ->
             get_compiler_includes(invocation.compiler, invocation.language,
                                   analyzer_options)
      [] invocation.probe = "target" -> get_compiler_target(invocation.compiler)
      [] invocation.probe = "standard" ->
             get_compiler_standard(invocation.compiler, invocation.language)

\* ICI.compiler_info[compiler][language][key] = value
StoreProbed(info, compiler, language, key, value) ==
    LET stored(compiler_data) ==
            DictSet(info, compiler,
                DictSet(compiler_data, language,
                    DictSet(DictGet(compiler_data, language, EmptyDict),
                            key, value)))
    IN stored(DictGet(info, compiler, EmptyDict))

\* A thread calls ImplicitCompilerInfo.set(details).
SetCall(t) ==
    /\ threads[t].pc = "idle"
    /\ \E d \in ConcurrentDetails :
          threads' = [threads EXCEPT ![t] = [pc |-> "check", step |-> 0,
                                             details |-> d, probes |-> <<>>]]
    /\ UNCHANGED <<ivars, pvars, uvars, svars, bvars, fvars, xvars>>

\* if not ICI.compiler_info.get(compiler):
\*     ICI.compiler_info[compiler] = defaultdict(dict)
SetCheck(t) ==
    /\ threads[t].pc = "check"
    /\ IF profile_is_missing(compiler_info, threads[t].details.compiler)
       THEN /\ compiler_info' = DictSet(compiler_info,
                                        threads[t].details.compiler, EmptyDict)
            /\ threads' = [threads EXCEPT ![t].pc = "probe", ![t].step = 1]
       ELSE /\ threads' = [threads EXCEPT ![t].pc = "merge"]
            /\ UNCHANGED compiler_info
    /\ UNCHANGED <<compiler_versions, compiler_isexecutable, pvars, uvars, svars,
                   bvars, fvars, xvars>>

\* The k-th of the six compiler invocations, and the store of what it gave.
SetProbe(t, k) ==
    /\ threads[t].pc = "probe"
    /\ threads[t].step = k
    /\ \E i \in {ProbeInvocations(threads[t].details.compiler)[k]} :
          /\ compiler_info' =
                 StoreProbed(compiler_info, i.compiler, i.language,
                             ProbeKey(i.probe),
                             ProbeValue(i, threads[t].details.analyzer_options))
          /\ threads' = [threads EXCEPT
                 ![t].probes = Append(@, i),
                 ![t].step = k + 1,
                 ![t].pc = IF k < Len(ProbeInvocations(i.compiler))
                           THEN "probe" ELSE "merge"]
    /\ UNCHANGED <<compiler_versions, compiler_isexecutable, pvars, uvars, svars,
                   bvars, fvars, xvars>>

\* The six calls of set_details_from_ICI, and the return.
SetMerge(t) ==
    /\ threads[t].pc = "merge"
    /\ threads' = [threads EXCEPT
           ![t].pc = "done",
           ![t].details = SetDetailsFromICI(compiler_info, threads[t].details)]
    /\ UNCHANGED <<ivars, pvars, uvars, svars, bvars, fvars, xvars>>

(***************************************************************************)
(* parse_options on one path flag with one value, written together with   *)
(* its value and apart from it.                                            *)
(***************************************************************************)
MaxForms == 2

PathFlags ==
    {"-I", "-idirafter", "-iquote", "-isysroot", "-isystem", "-iwithprefix",
     "-iwithprefixbefore", "--sysroot"}

PathValues == {"inc", "../inc/./sub", "/opt/x/../inc"}

PathForms == {"together", "apart"}

\* The tokens of the flag and its value in the command.
FlagTokens(flag, form, value) ==
    IF form = "apart" THEN <<flag, value>>
    ELSE IF flag = "--sysroot" THEN <<flag \o "=" \o value>>
    ELSE <<flag \o value>>

PathEntry(c, form) ==
    [directory |-> "/proj", file |-> "a.c",
     command |-> Join(<<c.compiler, "-O2">>
                      \o FlagTokens(c.flag, form, c.value)
                      \o <<"-c", "a.c", "-o", "a.o">>, " ")]

NoPathCase == [compiler |-> None, flag |-> None, value |-> None]

PathsIdle ==
    /\ path_case = NoPathCase
    /\ path_calls = <<>>

\* The compiler, the flag and the value of the entries are chosen.
PathChoice ==
    /\ path_case = NoPathCase
    /\ path_case' \in [compiler : {"gcc", "clang"}, flag : PathFlags,
                        value : PathValues]
    /\ UNCHANGED <<path_calls, ivars, pvars, uvars, svars, bvars, cvars, xvars>>

\* parse_options(entry, None, False, False, clangsa_version_get, env) on the
\* entry of one form.
PathCall ==
    /\ path_case /= NoPathCase
    /\ Len(path_calls) < MaxForms
    /\ \E form \in PathForms :
       \E p \in {parse_options(PathEntry(path_case, form), compiler_versions,
                               compiler_isexecutable, compiler_info)} :
          /\ compiler_versions' = p.compiler_versions
          /\ compiler_isexecutable' = p.compiler_isexecutable
          /\ compiler_info' = p.compiler_info
          /\ path_calls' = Append(path_calls,
                 [form |-> form, entry |-> PathEntry(path_case, form),
                  exc |-> p.exc, action |-> p.action])
    /\ UNCHANGED <<path_case, pvars, uvars, svars, bvars, cvars, xvars>>

(***************************************************************************)
(* extend_compilation_database_entries on a compilation database.          *)
(***************************************************************************)
MaxDatabase == 3

ExtendEntries ==
    {[directory |-> "/proj", file |-> "a.c", command |-> "gcc -c a.c"],
     [directory |-> "/proj", file |-> "a.c", arguments |-> <<"gcc", "-c", "a.c">>],
     [directory |-> "/proj", file |-> "@rsp", command |-> "gcc -O2 @rsp"],
     [directory |-> "/proj", file |-> "@rsp", arguments |-> <<"gcc", "@rsp">>],
     [directory |-> "/proj", file |-> "@rsp", command |-> "gcc -c b.c"],
     [directory |-> "/proj", file |-> "b.c", command |-> "gcc @rsp -c b.c"],
     [directory |-> "/proj", file |-> "@gone", command |-> "gcc @gone -c b.c"],
     [directory |-> "/proj", file |-> "b.c", command |-> "gcc @gone @rsp -c b.c"],
     [directory |-> "/proj", file |-> "b.c", arguments |-> <<"gcc", "@gone", "@rsp">>]}

ExtendIdle ==
    /\ database = <<>>
    /\ extended = <<>>

\* entries = extend_compilation_database_entries(compilation_database)
ExtendCall ==
    /\ database = <<>>
    /\ \E db \in SeqsUpTo(ExtendEntries, MaxDatabase) :
          /\ database' = db
          /\ extended' = extend_compilation_database_entries(db)
    /\ UNCHANGED <<ivars, pvars, uvars, svars, bvars, cvars, fvars>>

(***************************************************************************)
(* The specifications.                                                     *)
(***************************************************************************)
Init ==
    /\ CachesInit /\ ParseIdle /\ UniqueIdle /\ SkipIdle /\ BatchIdle
    /\ ThreadsIdle /\ PathsIdle /\ ExtendIdle

NextParse == ParseOptionsCall \/ FlagLoopStep \/ ParseOptionsReturn

SpecParse == Init /\ [][NextParse]_vars

NextLanguage == ParseOptionsCallLanguage \/ FlagLoopStep \/ ParseOptionsReturn

SpecLanguage == Init /\ [][NextLanguage]_vars

NextIgnored == ParseOptionsCallIgnored \/ FlagLoopStep \/ ParseOptionsReturn

SpecIgnored == Init /\ [][NextIgnored]_vars

NextUnique == ParseUniqueLogCall \/ ParseUniqueLogStep \/ ParseUniqueLogReturn

SpecUnique == Init /\ [][NextUnique]_vars

NextRun == ParseUniqueLogCallRun \/ ParseUniqueLogStep \/ ParseUniqueLogReturn

SpecRun == Init /\ [][NextRun]_vars

NextSkip == SkipListHandlerInit \/ overwrite_skip_content \/ ShouldSkipCall

SpecSkip == Init /\ [][NextSkip]_vars

NextBatch == BatchStart \/ AssembleCall \/ BatchEnd

SpecBatch == Init /\ [][NextBatch]_vars

NextConcurrent ==
    \E t \in Threads :
        \/ SetCall(t)
        \/ SetCheck(t)
        \/ \E k \in 1..Len(ProbeInvocations(None)) : SetProbe(t, k)
        \/ SetMerge(t)

SpecConcurrent == Init /\ [][NextConcurrent]_vars

NextPaths == PathChoice \/ PathCall

SpecPaths == Init /\ [][NextPaths]_vars

NextExtend == ExtendCall

SpecExtend == Init /\ [][NextExtend]_vars

(***************************************************************************)
(* Properties of parse_options (under SpecParse).                          *)
(***************************************************************************)
\* The loop handed the token out as an item of its own: no processor took it
\* from the iterator as the parameter of the flag before it.
SeenAsItem(token) == \E k \in items : Tail(gcc_command)[k] = token

ActionTypeFlag(token) ==
    \/ token = "-c"
    \/ StartsWith(token, "-print-prog-name")
    \/ PRECOMPILATION_OPTION(token)

RecognisedExtension == get_language(SplitextExt(entry.file)) /= None

\* C1 as stated: whenever -c is anywhere among the tokens after the
\* executable, the returned action's type is COMPILE.
C1_DashCAnywhere ==
    (pc = "returned" /\ \E k \in 2..Len(gcc_command) : gcc_command[k] = "-c")
        => details.action_type = "COMPILE"

\* C1, amended: once the loop has handed out -c as a flag of its own, the
\* type is COMPILE whatever flags come before or after it, and the returned
\* action's type is COMPILE when the extension of the declared file is one
\* get_language recognises.
C1_DashCAsFlag ==
    SeenAsItem("-c") =>
        /\ pc = "loop" => details.action_type = "COMPILE"
        /\ (pc = "returned" /\ RecognisedExtension)
               => details.action_type = "COMPILE"

C1_Witness ==
    /\ pc = "returned"
    /\ SeenAsItem("-c")
    /\ SeenAsItem("-E")
    /\ SeenAsItem("-print-prog-name=ld")
    /\ RecognisedExtension
    /\ details.action_type = "COMPILE"

\* C2: a declared file whose extension get_language does not recognise gives
\* a returned action of type LINK, also when the chain processed -c, -E or
\* -print-prog-name.
C2_UnrecognisedExtensionLinks ==
    (pc = "returned" /\ ~RecognisedExtension) => details.action_type = "LINK"

C2_Witness ==
    /\ pc = "returned"
    /\ ~RecognisedExtension
    /\ SeenAsItem("-c")
    /\ details.action_type = "LINK"

\* C3: the type of a returned action is one of COMPILE, PREPROCESS, LINK,
\* INFO, never None; it is COMPILE when the loop saw no action-type flag and
\* the extension of the declared file is recognised.
C3_ActionTypeSet ==
    pc = "returned" =>
        /\ details.action_type \in {"COMPILE", "PREPROCESS", "LINK", "INFO"}
        /\ (RecognisedExtension
            /\ \A k \in items : ~ActionTypeFlag(Tail(gcc_command)[k]))
               => details.action_type = "COMPILE"

C3_Witness ==
    /\ pc = "returned"
    /\ RecognisedExtension
    /\ Len(gcc_command) = 3
    /\ gcc_command[3] = "-E"
    /\ \A k \in items : ~ActionTypeFlag(Tail(gcc_command)[k])
    /\ details.action_type = "COMPILE"

(***************************************************************************)
(* Properties of parse_unique_log (under SpecUnique).                      *)
(***************************************************************************)
\* The turns of the loop whose action passed the two filters.
Eligible(turn) ==
    /\ turn.passed
    /\ turn.exc = ""
    /\ turn.action.lang /= None
    /\ turn.action.action_type = "COMPILE"

EligibleTurns == {i \in 1..Len(parsed) : Eligible(parsed[i])}

\* The actions of the eligible turns, in the order of the batch.
EligibleActions ==
    LET turns == SelectSeq(parsed, Eligible)
    IN [i \in 1..Len(turns) |-> turns[i].action]

\* The actions the call holds: the dict during the loop, the list after it.
KeptActions ==
    IF upc = "returned" THEN result.actions ELSE Values(uniqued_build_actions)

\* C4 as stated: under 'none' no two returned actions have the same content,
\* and the returned actions are the contents of the eligible actions.
C4_FirstOccurrenceOnly ==
    (upc = "returned" /\ compile_uniqueing = "none") =>
        /\ \A i, j \in 1..Len(result.actions) :
               result.actions[i] = result.actions[j] => i = j
        /\ {result.actions[i] : i \in 1..Len(result.actions)}
               = {parsed[i].action : i \in EligibleTurns}

\* C5: under 'strict' the turn of a second eligible action with the source of
\* an earlier one is the last turn: the call exits with status 1 and returns
\* no list; a call that returns, returns every eligible action.
C5_StrictAbortsOnSecond ==
    compile_uniqueing = "strict" =>
        /\ \A i, j \in EligibleTurns :
               (i < j /\ parsed[i].action.source = parsed[j].action.source)
                   => /\ upc = "exit"
                      /\ result.status = 1
                      /\ result.why = "uniqueing failed"
                      /\ result.actions = <<>>
                      /\ j = Len(parsed)
        /\ upc = "returned" => result.actions = EligibleActions

C5_Witness ==
    /\ compile_uniqueing = "strict"
    /\ upc = "exit"
    /\ Len(parsed) = 2
    /\ EligibleTurns = {1, 2}
    /\ parsed[1].action.source = parsed[2].action.source
    /\ parsed[1].action /= parsed[2].action

\* The eligible turn that wins its source: no eligible turn of that source
\* has a smaller output, and none before it has the same output.
AlphaWinner(w) ==
    /\ w \in EligibleTurns
    /\ \A j \in EligibleTurns :
           parsed[j].action.source = parsed[w].action.source
               => /\ ~StrLess(parsed[j].action.output, parsed[w].action.output)
                  /\ parsed[j].action.output = parsed[w].action.output => w <= j

\* C6: under 'alpha' the actions kept are, one for each source of an eligible
\* action, the action with the smallest output of that source, the earliest
\* of them when outputs tie.
C6_AlphaKeepsSmallestOutput ==
    (compile_uniqueing = "alpha" /\ upc \in {"loop", "returned"}) =>
        /\ \A i, j \in 1..Len(KeptActions) :
               KeptActions[i].source = KeptActions[j].source => i = j
        /\ {KeptActions[i] : i \in 1..Len(KeptActions)}
               = {parsed[w].action : w \in {t \in EligibleTurns : AlphaWinner(t)}}

C6_Witness ==
    /\ compile_uniqueing = "alpha"
    /\ upc = "returned"
    /\ EligibleTurns = {1, 2}
    /\ parsed[1].action.source = parsed[2].action.source
    /\ StrLess(parsed[2].action.output, parsed[1].action.output)
    /\ result.actions = <<parsed[2].action>>

PatternPolicy == compile_uniqueing \notin {"none", "strict", "alpha"}

\* C7: under a pattern, a turn whose eligible action has the source of a kept
\* action keeps the one of the two whose original command matches, exits with
\* status 1 when both match, and keeps the kept one when neither does.
C7_PatternStep ==
    (/\ PatternPolicy
     /\ upc = "loop"
     /\ Len(parsed') = Len(parsed) + 1
     /\ Eligible(parsed'[Len(parsed')])
     /\ HasKey(uniqued_build_actions, parsed'[Len(parsed')].action.source))
    => LET new == parsed'[Len(parsed')].action
           old == Lookup(uniqued_build_actions, new.source)
           new_matches == uniqueing_re_match(compile_uniqueing, new.original_command)
           old_matches == uniqueing_re_match(compile_uniqueing, old.original_command)
       IN /\ (new_matches /\ ~old_matches)
                 => upc' = "loop" /\ Lookup(uniqued_build_actions', new.source) = new
          /\ (~new_matches /\ old_matches)
                 => upc' = "loop" /\ Lookup(uniqued_build_actions', new.source) = old
          /\ (new_matches /\ old_matches)
                 => upc' = "exit" /\ result'.status = 1
          /\ (~new_matches /\ ~old_matches)
                 => upc' = "loop" /\ Lookup(uniqued_build_actions', new.source) = old

C7_PatternPolicy == [][C7_PatternStep]_vars

C7_Witness ==
    /\ PatternPolicy
    /\ upc = "returned"
    /\ EligibleTurns = {1, 2}
    /\ parsed[1].action.source = parsed[2].action.source
    /\ ~uniqueing_re_match(compile_uniqueing, parsed[1].action.original_command)
    /\ uniqueing_re_match(compile_uniqueing, parsed[2].action.original_command)
    /\ result.actions = <<parsed[2].action>>

\* A turn whose action did not pass the two filters leaves the dict alone
\* and the loop running.
C8_DiscardedStep ==
    (/\ upc = "loop"
     /\ Len(parsed') = Len(parsed) + 1
     /\ parsed'[Len(parsed')].passed
     /\ parsed'[Len(parsed')].exc = ""
     /\ ~Eligible(parsed'[Len(parsed')]))
    => /\ uniqued_build_actions' = uniqued_build_actions
       /\ upc' = "loop"

C8_ReturnedAreCompile ==
    upc = "returned" =>
        \A i \in 1..Len(result.actions) :
            /\ result.actions[i].lang /= None
            /\ result.actions[i].action_type = "COMPILE"

\* C8: under every policy the returned actions have a language and the type
\* COMPILE, and an action without a language or of another type is dropped
\* before the policy sees it: it changes nothing that is kept and ends no call.
C8_OnlyCompileWithLanguage == []C8_ReturnedAreCompile /\ [][C8_DiscardedStep]_vars

C8_Witness ==
    /\ compile_uniqueing = "strict"
    /\ upc = "returned"
    /\ Len(parsed) = 2
    /\ EligibleTurns = {1}
    /\ parsed[2].passed
    /\ parsed[2].action.action_type = "PREPROCESS"
    /\ parsed[2].action.source = parsed[1].action.source
    /\ result.actions = <<parsed[1].action>>

\* The condition of C10 on the file of an entry.
SkippedBeforeAssembly(file) ==
    /\ analysis_skip_handler.present
    /\ should_skip(analysis_skip_handler.skip, file)
    /\ ctu_or_stats_enabled
           => /\ pre_analysis_skip_handler.present
              /\ should_skip(pre_analysis_skip_handler.skip, file)

\* C10: a turn skips its entry, counting it and not passing it to
\* parse_options, exactly when the analysis skip handler is there and says
\* skip and either CTU/statistics is off or the pre-analysis handler is there
\* and says skip too; the skip count, also the returned one, is the number of
\* these entries.
C10_SkippedBeforeAssembly ==
    /\ \A i \in 1..Len(parsed) :
           /\ parsed[i].skipped = SkippedBeforeAssembly(parsed[i].file)
           /\ parsed[i].passed = ~parsed[i].skipped
    /\ upc \in {"loop", "returned"}
           => skipped_cmp_cmd_count
                  = Cardinality({i \in 1..Len(parsed) : parsed[i].skipped})
    /\ upc = "returned"
           => result.skipped
                  = Cardinality({i \in 1..Len(entries) :
                                     SkippedBeforeAssembly(entries[i].file)})

C10_Witness ==
    /\ upc = "returned"
    /\ ctu_or_stats_enabled
    /\ Len(parsed) = 2
    /\ parsed[1].skipped
    /\ ~parsed[2].skipped
    /\ should_skip(analysis_skip_handler.skip, parsed[2].file)
    /\ result.skipped = 1

(***************************************************************************)
(* Properties of SkipListHandler (under SpecSkip).                         *)
(***************************************************************************)
RuleMatches(i) == rexpr_match(skip[i].pattern, source_asked)

FirstMatch(i) ==
    /\ i \in 1..Len(skip)
    /\ RuleMatches(i)
    /\ \A j \in 1..(i - 1) : ~RuleMatches(j)

\* C9: should_skip answers True exactly when the first rule, in the order of
\* the file, that matches the path has the sign '-': it answers False when
\* that rule has '+', when no rule matches and when there is no rule; with
\* the rules -/vendor/* and +/vendor/keep.c, /vendor/keep.c is skipped.
C9_FirstMatchingRuleDecides ==
    source_asked /= None =>
        /\ answer = (\E i \in 1..Len(skip) :
                        FirstMatch(i) /\ CharAt(skip[i].line, 1) = "-")
        /\ (\E i \in 1..Len(skip) : FirstMatch(i) /\ CharAt(skip[i].line, 1) = "+")
               => ~answer
        /\ (\A i \in 1..Len(skip) : ~RuleMatches(i)) => ~answer
        /\ (/\ skip_file_lines = <<"-/vendor/*", "+/vendor/keep.c">>
            /\ Len(skip) = 2
            /\ skip[1].line = "-/vendor/*"
            /\ skip[2].line = "+/vendor/keep.c"
            /\ source_asked = "/vendor/keep.c")
               => answer

C9_Witness ==
    /\ source_asked = "/vendor/keep.c"
    /\ Len(skip) = 2
    /\ skip[1].line = "-/vendor/*"
    /\ skip[2].line = "+/vendor/keep.c"
    /\ RuleMatches(1)
    /\ RuleMatches(2)
    /\ answer

(***************************************************************************)
(* Properties of a sequence of parse_options calls (under SpecBatch).      *)
(***************************************************************************)
\* The number of times x is in the sequence log.
Count(log, x) == Cardinality({k \in 1..Len(log) : log[k] = x})
\* C13 as stated: when two assemblies with the same compiler path run
\* concurrently and interleave at the check whether the profile is present
\* and the store of the probed profile, the probes of that compiler are issued
\* by only one of them.
C13_ProbesIssuedByOneThread ==
    \A t1, t2 \in Threads :
        t1 /= t2 =>
            \A k1 \in 1..Len(threads[t1].probes), k2 \in 1..Len(threads[t2].probes) :
                threads[t1].probes[k1].compiler /= threads[t2].probes[k2].compiler

\* C11 as stated: in a batch processed entry after entry the version query
\* (get_clangsa_version_func) runs at most once for every compiler, whether
\* its answer was a Clang version or that the compiler is no Clang.
C11_VersionQueriedOncePerCompiler ==
    \A k \in 1..Len(version_query_log) :
        Count(version_query_log, version_query_log[k]) = 1

\* The second of two calls of parse_options on the same entry, with the same
\* compiler info file, the first of which returned.
SecondRun(i, j) ==
    /\ i < j
    /\ calls[i].entry = calls[j].entry
    /\ calls[i].compiler_info_file = calls[j].compiler_info_file
    /\ calls[i].file_exists = calls[j].file_exists
    /\ calls[i].exc = ""

\* C12 as stated: a second run of parse_options on an entry, after a first
\* run filled the caches for its compiler, makes no external invocation of
\* any kind (version query, executable lookup, compiler probe) and returns
\* a Build Action equal to the first.
C12_SecondRunInvokesNothing ==
    \A i, j \in 1..Len(calls) :
        SecondRun(i, j) =>
            /\ calls[j].exc = ""
            /\ calls[j].action = calls[i].action
            /\ calls[j].version_queries = <<>>
            /\ calls[j].find_executable = <<>>
            /\ calls[j].ici.probes = <<>>

\* The calls up to the j-th ran without an existing compiler info file.
NoFileUpTo(j) == \A k \in 1..j : ~calls[k].file_exists

\* The compiler ImplicitCompilerInfo.set was called for in the k-th call.
ProfileCompiler(k) == calls[k].ici.before.compiler

\* The earlier calls of ImplicitCompilerInfo.set for the compiler of the j-th.
EarlierSets(j) ==
    {i \in 1..(j - 1) :
        calls[i].ici.called /\ ProfileCompiler(i) = ProfileCompiler(j)}

\* C14: in a sequential run without a compiler info file the profile of a
\* compiler is probed by the first assembly that needs it and never again:
\* the first call of ImplicitCompilerInfo.set for a compiler issues its six
\* probes, every later one issues none and leaves the profile as the first
\* stored it, whatever the first probe gave and whatever flags the later
\* entry carries.
C14_ProfileProbedOnce ==
    \A j \in 1..Len(calls) :
        (NoFileUpTo(j) /\ calls[j].ici.called) =>
            IF EarlierSets(j) = {}
            THEN calls[j].exc = "" =>
                     calls[j].ici.probes = ProbeInvocations(ProfileCompiler(j))
            ELSE /\ calls[j].ici.probes = <<>>
                 /\ \A i \in EarlierSets(j) :
                       calls[j].ici.compiler_info[ProfileCompiler(j)] =
                           calls[i].ici.compiler_info[ProfileCompiler(j)]

\* Reached: gcc was probed for an entry without -m32, and a later entry with
\* -m32 was assembled from the stored profile.
C14_Witness ==
    \E i, j \in 1..Len(calls) :
        /\ i < j
        /\ NoFileUpTo(j)
        /\ calls[i].entry.command = "gcc -c a.c"
        /\ calls[j].entry.command = "gcc -m32 -c a.c"
        /\ calls[i].ici.probes /= <<>>
        /\ calls[j].ici.called
        /\ calls[j].ici.probes = <<>>
        /\ calls[j].exc = ""

\* Reached: the probe of cc failed, and a later entry with cc was assembled
\* from the empty profile.
C14_FailedProbeReached ==
    \E i, j \in 1..Len(calls) :
        /\ i < j
        /\ NoFileUpTo(j)
        /\ ProfileCompiler(i) = "cc" /\ ProfileCompiler(j) = "cc"
        /\ calls[i].ici.called /\ calls[j].ici.called
        /\ calls[i].ici.compiler_info["cc"]["c"].compiler_includes = <<>>
        /\ calls[i].ici.compiler_info["cc"]["c"].target = ""

ProfileKeys == {"compiler_includes", "compiler_standard", "target"}

\* The value the assembly holds under key and language, and whether it is
\* non-empty.
HasValue(d, key, lang) ==
    /\ lang \in DOMAIN d[key]
    /\ IF key = "compiler_includes" THEN d[key][lang] /= <<>>
       ELSE d[key][lang] \notin {None, ""}

\* The cache holds a value of the compiler under language and key.
CacheHas(info, compiler, key, lang) ==
    /\ compiler \in DOMAIN info
    /\ lang \in DOMAIN info[compiler]
    /\ key \in DOMAIN info[compiler][lang]

\* C15: ImplicitCompilerInfo.set leaves a non-empty value of the assembly
\* under a key of {compiler_includes, compiler_standard, target} and a
\* language of {c, c++} unchanged; any other becomes the value of the cached
\* profile when the cache has one, and stays as it was when it has none.
C15_MergeKeepsCommandValues ==
    \A j \in 1..Len(calls) :
        (calls[j].ici.called /\ calls[j].ici.exc = "") =>
            \A key \in ProfileKeys, lang \in {"c", "c++"} :
                LET before == calls[j].ici.before
                    after == calls[j].ici.details
                    info == calls[j].ici.compiler_info
                IN IF HasValue(before, key, lang)
                   THEN after[key][lang] = before[key][lang]
                   ELSE IF CacheHas(info, before.compiler, key, lang)
                   THEN /\ lang \in DOMAIN after[key]
                        /\ after[key][lang] = info[before.compiler][lang][key]
                   ELSE after[key] = before[key]

\* Reached: the command gave the target of c, the cache gave the target of
\* c++ and the includes.
C15_Witness ==
    \E j \in 1..Len(calls) :
        /\ calls[j].ici.called
        /\ calls[j].ici.exc = ""
        /\ HasValue(calls[j].ici.before, "target", "c")
        /\ calls[j].ici.details.target["c"] = "armv7"
        /\ CacheHas(calls[j].ici.compiler_info, "gcc", "target", "c")
        /\ calls[j].ici.compiler_info["gcc"]["c"].target /= "armv7"
        /\ ~HasValue(calls[j].ici.before, "target", "c++")
        /\ HasValue(calls[j].ici.details, "target", "c++")
        /\ HasValue(calls[j].ici.details, "compiler_includes", "c")

\* The compiler of the j-th call is Clang-compatible: the version query gives
\* a version.
IsClangCompatible(j) ==
    clangsa_version_get(ProfileCompiler(j)) \notin {False, "OSError"}

\* A custom toolchain flag is among the analyzer options of the j-th call.
HasToolchainFlag(j) ==
    \E k \in 1..Len(calls[j].ici.before.analyzer_options) :
        Contains(calls[j].ici.before.analyzer_options[k], "--gcc-toolchain")

\* C16: ImplicitCompilerInfo.set is called for an action exactly when an
\* existing compiler info file was supplied, or the compiler is not
\* Clang-compatible and no toolchain flag is among the analyzer options; with
\* a toolchain flag and no existing file no compiler is probed.
C16_ProfileConsultedExactlyWhen ==
    \A j \in 1..Len(calls) :
        (calls[j].exc = "" \/ calls[j].ici.called) =>
            /\ calls[j].ici.called <=>
                   \/ calls[j].file_exists
                   \/ ~IsClangCompatible(j) /\ ~HasToolchainFlag(j)
            /\ (HasToolchainFlag(j) /\ ~calls[j].file_exists) =>
                   calls[j].ici.probes = <<>>

\* Reached: gcc with a toolchain flag and no file was not probed, and a
\* Clang with an existing file had ImplicitCompilerInfo.set called.
C16_Witness ==
    \E i, j \in 1..Len(calls) :
        /\ calls[i].exc = "" /\ calls[j].exc = ""
        /\ ~IsClangCompatible(i) /\ HasToolchainFlag(i)
        /\ ~calls[i].file_exists
        /\ ~calls[i].ici.called
        /\ IsClangCompatible(j) /\ ~HasToolchainFlag(j)
        /\ calls[j].file_exists
        /\ calls[j].ici.called

\* The last call loaded the profile of its compiler from the file an earlier
\* run dumped its probed profiles to.
LoadedFromProbedFile(j) ==
    /\ j = Len(calls)
    /\ bpc = "run"
    /\ calls[j].ici.loaded
    /\ calls[j].ici.exc = ""
    /\ compiler_info_json.exists
    /\ compiler_info_json.probed
    /\ ProfileCompiler(j) \in DOMAIN compiler_info_json.contents

\* C17 as stated: the profile load_compiler_info gives for a compiler from
\* the file written by the JSON dump of probed profiles has, for c and c++,
\* the compiler_includes sequence, the compiler_standard and the target of
\* the probed record.
C17_LoadedEqualsProbed ==
    \A j \in 1..Len(calls) :
        LoadedFromProbedFile(j) =>
            \A lang \in {"c", "c++"}, key \in ProfileKeys :
                calls[j].ici.compiler_info[ProfileCompiler(j)][lang][key] =
                    compiler_info_json.contents[ProfileCompiler(j)][lang][key]

\* The same for the compilers none of whose include directories has a blank
\* in its path (holds).
C17_LoadedEqualsProbedWithoutBlanks ==
    \A j \in 1..Len(calls) :
        (LoadedFromProbedFile(j) /\ ProfileCompiler(j) /= "sdk-gcc") =>
            \A lang \in {"c", "c++"}, key \in ProfileKeys :
                calls[j].ici.compiler_info[ProfileCompiler(j)][lang][key] =
                    compiler_info_json.contents[ProfileCompiler(j)][lang][key]

\* The i-th call had the flag written together with its value, the j-th
\* apart from it, and both returned.
BothForms(i, j) ==
    /\ path_calls[i].form = "together"
    /\ path_calls[j].form = "apart"
    /\ path_calls[i].exc = ""
    /\ path_calls[j].exc = ""

IsAbsolute(path) == StartsWith(path, "/")

\* The tokens of a sequence.
Tokens(options) == {options[k] : k \in 1..Len(options)}

\* The sequence apart is the sequence together with its k-th token, the flag
\* followed by the path, replaced by the two tokens flag and path.
SplitAt(together, apart, k, flag, path) ==
    /\ together[k] = flag \o path
    /\ apart = SubSeq(together, 1, k - 1) \o <<flag, path>>
                  \o SubSeq(together, k + 1, Len(together))

Stored(options, flag, path) ==
    \E k \in 1..Len(options) :
        \/ options[k] = flag \o path
        \/ options[k] = flag /\ k < Len(options) /\ options[k + 1] = path

\* C19 as stated: every known path flag with a relative value, in either
\* form, is stored as the flag as written with the normalized absolute path
\* of the value joined to the working directory; gcc -O2 -Iinc -c a.c -o a.o
\* in /proj gives language c, COMPILE, output a.o and analyzer_options with
\* -O2 and -I/proj/inc.
C19_RelativeValueResolved ==
    \A i \in 1..Len(path_calls) :
        /\ ~IsAbsolute(path_case.value) =>
               /\ path_calls[i].exc = ""
               /\ Stored(path_calls[i].action.analyzer_options, path_case.flag,
                         Normpath(PathJoin("/proj", path_case.value)))
        /\ path_calls[i].entry.command = "gcc -O2 -Iinc -c a.c -o a.o" =>
               /\ path_calls[i].action.lang = "c"
               /\ path_calls[i].action.action_type = "COMPILE"
               /\ path_calls[i].action.output = "a.o"
               /\ "-O2" \in Tokens(path_calls[i].action.analyzer_options)
               /\ "-I/proj/inc" \in Tokens(path_calls[i].action.analyzer_options)

\* The same without -iwithprefixbefore, and without --sysroot=<value> in the
\* chain of a compiler that is not a Clang (holds).
C19_ResolvedButTwoFlags ==
    \A i \in 1..Len(path_calls) :
        (/\ ~IsAbsolute(path_case.value)
         /\ path_case.flag /= "-iwithprefixbefore"
         /\ ~(path_case.flag = "--sysroot" /\ path_case.compiler = "gcc"
                /\ path_calls[i].form = "together"))
        => /\ path_calls[i].exc = ""
           /\ Stored(path_calls[i].action.analyzer_options, path_case.flag,
                     Normpath(PathJoin("/proj", path_case.value)))

\* The tokens of the command of an entry, and the entry with other tokens.
CommandTokens(e) ==
    IF "command" \in DOMAIN e THEN ShlexSplit(e.command) ELSE e.arguments

WithTokens(e, tokens) ==
    IF "command" \in DOMAIN e THEN [e EXCEPT !.command = Join(tokens, " ")]
    ELSE [e EXCEPT !.arguments = tokens]

HasMarker(e) ==
    \/ Contains(e.file, "@")
    \/ \E k \in 1..Len(CommandTokens(e)) : Contains(CommandTokens(e)[k], "@")

\* One new entry per implied source file of the response files of e: the
\* file set to the source, the expanded tokens in the command.
PerSourceFile(e) ==
    LET x == ExpandOptions(CommandTokens(e), 1, e.directory, <<>>, <<>>)
    IN [i \in 1..Len(x.source_files) |->
           [WithTokens(e, x.cmd) EXCEPT !.file = x.source_files[i]]]

\* The entry with the tokens of its response files in its command.
Expanded(e) ==
    WithTokens(e, ExpandOptions(CommandTokens(e), 1, e.directory, <<>>, <<>>).cmd)

\* The entries the statement gives for an entry: those per source file for a
\* marker in the file, the entry itself without any marker.  It says nothing
\* of a marker in the command only: the entry with the expanded command.
StatedImage(e) ==
    IF Contains(e.file, "@") THEN PerSourceFile(e)
    ELSE IF ~HasMarker(e) THEN <<e>>
    ELSE <<Expanded(e)>>

\* The same, where only a command string with a marker is expanded.
CommandStringImage(e) ==
    IF "command" \in DOMAIN e /\ Contains(e.command, "@")
    THEN (IF Contains(e.file, "@") THEN PerSourceFile(e) ELSE <<Expanded(e)>>)
    ELSE <<e>>

\* The images of the entries from the k-th on, in the order of the entries.
RECURSIVE StatedFrom(_, _)
StatedFrom(db, k) ==
    IF k > Len(db) THEN <<>> ELSE StatedImage(db[k]) \o StatedFrom(db, k + 1)

RECURSIVE CommandStringFrom(_, _)
CommandStringFrom(db, k) ==
    IF k > Len(db) THEN <<>>
    ELSE CommandStringImage(db[k]) \o CommandStringFrom(db, k + 1)

\* C20 as stated: extend_compilation_database_entries replaces an entry whose
\* file holds the marker @ by one new entry per implied source file of its
\* response files, passes an entry without any marker through unchanged and
\* keeps the order of the entries.
C20_MarkedFileExpanded == extended = StatedFrom(database, 1)

\* What holds instead: only an entry with a command string that holds the
\* marker is expanded, into one entry per implied source file when its file
\* holds the marker too and into itself with the expanded command otherwise;
\* every other entry, one with an arguments list included, passes through
\* unchanged.
MarkedCommandStringExpanded == extended = CommandStringFrom(database, 1)

\* The token names a response file that does not exist.
IsMissingReference(e, token) ==
    /\ StartsWith(token, "@")
    /\ PathJoin(e.directory, Drop(token, 1)) \notin DOMAIN ResponseFiles

HasMissingReference(e) ==
    \E k \in 1..Len(CommandTokens(e)) : IsMissingReference(e, CommandTokens(e)[k])

\* The tokens of the command from the k-th on, with the words of every
\* existing response file in place of its reference and nothing in place of
\* a reference to a missing one.
RECURSIVE TokensButMissing(_, _, _)
TokensButMissing(e, tokens, k) ==
    IF k > Len(tokens) THEN <<>>
    ELSE (IF IsMissingReference(e, tokens[k]) THEN <<>>
          ELSE IF StartsWith(tokens[k], "@")
          THEN ShlexSplit(ResponseFiles[PathJoin(e.directory, Drop(tokens[k], 1))])
          ELSE <<tokens[k]>>)
         \o TokensButMissing(e, tokens, k + 1)

\* What extend_compilation_database_entries gives for the entries from the
\* k-th on, each taken alone.
RECURSIVE EachAlone(_, _)
EachAlone(db, k) ==
    IF k > Len(db) THEN <<>>
    ELSE extend_compilation_database_entries(<<db[k]>>) \o EachAlone(db, k + 1)

\* The entries made of database[k] hold the tokens of its command with the
\* words of the existing response files and without the missing references.
OtherTokensKept(k) ==
    LET images == extend_compilation_database_entries(<<database[k]>>)
    IN /\ \A i \in 1..Len(images) :
              CommandTokens(images[i]) =
                  TokensButMissing(database[k], CommandTokens(database[k]), 1)
       /\ ~Contains(database[k].file, "@") => Len(images) = 1

\* C21 as stated: a reference to a response file that does not exist does
\* not end the run: the entries made of the command with the reference hold
\* every other token of it and the words of every existing response file it
\* names, an entry whose file has no marker stays one entry, and the other
\* entries of the database are processed as they are without it.
C21_MissingResponseFileSkipped ==
    /\ extended = EachAlone(database, 1)
    /\ \A k \in 1..Len(database) :
          HasMissingReference(database[k]) => OtherTokensKept(k)

\* The same of the entries with a command string (holds).
MissingReferenceOfCommandStringSkipped ==
    /\ extended = EachAlone(database, 1)
    /\ \A k \in 1..Len(database) :
          (HasMissingReference(database[k]) /\ "command" \in DOMAIN database[k])
              => OtherTokensKept(k)

\* Reached: a command string with a missing and an existing reference was
\* expanded with the words of the existing one, and the entry after it was
\* expanded.
MissingAndExistingReferenceReached ==
    /\ Len(database) = 2
    /\ database[1] = [directory |-> "/proj", file |-> "b.c",
                      command |-> "gcc @gone @rsp -c b.c"]
    /\ database[2] = [directory |-> "/proj", file |-> "@rsp",
                      command |-> "gcc -O2 @rsp"]
    /\ Len(extended) = 3
    /\ extended[1].command = "gcc -DRSP -c r1.c r2.cpp -c b.c"
    /\ extended[2].file = "r1.c"
    /\ extended[3].file = "r2.cpp"

\* The entry has neither a command string nor an argument vector.
HasNoCommand(e) == "command" \notin DOMAIN e /\ "arguments" \notin DOMAIN e

HasBothCommands(e) == "command" \in DOMAIN e /\ "arguments" \in DOMAIN e

\* C22: an entry with neither 'command' nor 'arguments' makes parse_options
\* raise a KeyError, which ends parse_unique_log with exit status 1 at that
\* entry: no action is returned, those of the entries before it included.
\* Of an entry with both, the argument vector is the command that is parsed.
C22_NoCommandIsFatal ==
    \A k \in 1..Len(parsed) :
        /\ HasNoCommand(entries[k]) =>
               /\ parsed[k].exc = "KeyError"
               /\ k = Len(parsed)
               /\ idx = k
               /\ upc = "exit"
               /\ result.status = 1
               /\ result.actions = <<>>
        /\ HasBothCommands(entries[k]) =>
               /\ parsed[k].exc = ""
               /\ parsed[k].action.original_command = Join(entries[k].arguments, " ")
               /\ parsed[k].action =
                      parse_options([f \in DOMAIN entries[k] \ {"command"} |->
                                        entries[k][f]],
                                    EmptyDict, EmptyDict, EmptyDict).action

\* Reached: the run ended with status 1 at an entry without a command after
\* it had kept the actions of an entry with both forms and of another one.
C22_Witness ==
    /\ upc = "exit"
    /\ Len(parsed) = 3
    /\ HasBothCommands(entries[1])
    /\ HasNoCommand(entries[3])
    /\ Len(uniqued_build_actions) = 2
    /\ uniqued_build_actions[1].action.action_type = "COMPILE"
    /\ result.status = 1
    /\ result.actions = <<>>

\* The key under which the policy of the call keeps the action of a turn.
DedupKey(i) ==
    IF build_action_uniqueing(compile_uniqueing) = "NONE"
    THEN bound_hash_method(parsed[i].action, i)
    ELSE parsed[i].action.source

\* The eligible turns whose key no earlier eligible turn had.
FirstTurns ==
    {i \in EligibleTurns :
        \A j \in EligibleTurns : j < i => DedupKey(j) /= DedupKey(i)}

\* The p-th of them in the order of the batch.
NthFirstTurn(p) ==
    CHOOSE i \in FirstTurns : Cardinality({j \in FirstTurns : j < i}) = p - 1

\* What the policy compares of an action: the action under 'none', its
\* source under the other policies.
Compared(action) ==
    IF build_action_uniqueing(compile_uniqueing) = "NONE" THEN action
    ELSE action.source

\* The first eligible turn whose action compares equal to this one.
FirstTurnOf(action) ==
    CHOOSE i \in EligibleTurns :
        /\ Compared(parsed[i].action) = Compared(action)
        /\ \A j \in EligibleTurns :
               Compared(parsed[j].action) = Compared(action) => i <= j

\* C30: the kept actions are in the order in which their keys first occurred
\* in the batch, during the loop and in the returned list: the p-th of them
\* is the action of a turn with the p-th key, of the first such turn unless
\* the alphabetical or the pattern policy replaced it by that of a later one;
\* the first returned actions of distinct sources (of distinct contents under
\* 'none') are in the order of the first turns with them.
C30_OrderedByFirstOccurrence ==
    /\ Len(uniqued_build_actions) = Cardinality(FirstTurns)
    /\ \A p \in 1..Len(uniqued_build_actions) :
          /\ uniqued_build_actions[p].key = DedupKey(NthFirstTurn(p))
          /\ \E i \in EligibleTurns :
                /\ i >= NthFirstTurn(p)
                /\ DedupKey(i) = DedupKey(NthFirstTurn(p))
                /\ uniqued_build_actions[p].action = parsed[i].action
                /\ i > NthFirstTurn(p) =>
                       build_action_uniqueing(compile_uniqueing)
                           \in {"SOURCE_ALPHA", "SOURCE_REGEX"}
    /\ upc = "returned" =>
          /\ Len(result.actions) = Cardinality(FirstTurns)
          /\ \A p \in 1..Len(result.actions) :
                result.actions[p] = uniqued_build_actions[p].action
          /\ \A p, q \in 1..Len(result.actions) :
                (/\ p < q
                 /\ Compared(result.actions[p]) /= Compared(result.actions[q])
                 /\ \A r \in 1..(q - 1) :
                        Compared(result.actions[r]) /= Compared(result.actions[q]))
                => FirstTurnOf(result.actions[p]) < FirstTurnOf(result.actions[q])

\* Reached: the alphabetical policy replaced the action of the first entry
\* by that of the third, and the returned list has it before the action of
\* the second entry.
C30_Witness ==
    /\ upc = "returned"
    /\ compile_uniqueing = "alpha"
    /\ Len(parsed) = 3
    /\ Len(result.actions) = 2
    /\ result.actions[1] = parsed[3].action
    /\ result.actions[1] /= parsed[1].action
    /\ result.actions[1].source = parsed[1].action.source
    /\ result.actions[2] = parsed[2].action

(***************************************************************************)
(* Properties of parse_options on wrapped commands and on commands that    *)
(* set the language and the architecture (under SpecLanguage).             *)
(***************************************************************************)
\* The command begins with a wrapper and a token that is an executable.
IsWrapped ==
    /\ Len(gcc_command) >= 2
    /\ EndsWith(gcc_command[1], "ccache")
    /\ gcc_command[2] \in ExecutablesOnPath

\* The entry without the wrapper token.
Unwrapped == [entry EXCEPT !.arguments = Tail(@)]

C23_WrapperKept ==
    /\ pc = "returned"
    /\ gcc_command[1] = "ccache"
    /\ gcc_command[2] = "nogcc"
    /\ details.compiler = "ccache"

\* The positions at which the loop handed out a -x flag.
LanguageFlagItems == {k \in items : StartsWith(Tail(gcc_command)[k], "-x")}

\* The value of the -x flag at position k.
LanguageFlagValue(k) ==
    IF Tail(gcc_command)[k] = "-x" THEN Tail(gcc_command)[k + 1]
    ELSE Drop(Tail(gcc_command)[k], 2)

\* C28: the language of the returned action is the value of the last -x
\* flag of the command; without one it is c++ when the basename of the
\* compiler contains ++; otherwise it is the language of the extension of
\* the declared file, and unset when that has none.
C28_LanguagePrecedence ==
    pc = "returned" =>
        details.lang =
            IF LanguageFlagItems /= {}
            THEN LanguageFlagValue(CHOOSE k \in LanguageFlagItems :
                                       \A j \in LanguageFlagItems : j <= k)
            ELSE IF Contains(Basename(details.compiler), "++") THEN "c++"
            ELSE get_language(SplitextExt(entry.file))

\* Reached: two -x flags on a C++ file, the last one decides.
C28_Witness ==
    /\ pc = "returned"
    /\ entry.file = "a.cpp"
    /\ gcc_command = <<"gcc", "-x", "c++", "-xc">>
    /\ details.lang = "c"

\* Reached: the compiler name decides before the extension does.
C28_NameBeforeExtension ==
    /\ pc = "returned"
    /\ entry.file = "a.c"
    /\ gcc_command = <<"g++", "-c">>
    /\ details.lang = "c++"

\* C26 as stated: the architecture given by -arch is in the target map of
\* the returned action under the language of the action, and under no other
\* key.
C26_ArchUnderActionLanguage ==
    (pc = "returned" /\ details.arch /= "") =>
        /\ details.lang \in DOMAIN details.target
        /\ details.target[details.lang] = details.arch
        /\ \A l \in DOMAIN details.target \ {details.lang} :
               details.target[l] /= details.arch

(***************************************************************************)
(* Properties of the flag loop (under SpecParse).                          *)
(***************************************************************************)
\* C24: a turn of the flag loop that starts with the type COMPILE ends with
\* it; a turn on -print-prog-name* that starts with another type ends with
\* INFO, and a turn on -E or an -M flag that starts with another type ends
\* with PREPROCESS.
C24_CompileIsKept ==
    [][(pc = "loop" /\ it' /= it) =>
          /\ details.action_type = "COMPILE" => details'.action_type = "COMPILE"
          /\ details.action_type /= "COMPILE" =>
                 /\ StartsWith(Tail(gcc_command)[it + 1], "-print-prog-name")
                        => details'.action_type = "INFO"
                 /\ PRECOMPILATION_OPTION(Tail(gcc_command)[it + 1])
                        => details'.action_type = "PREPROCESS"]_vars

\* Reached: the loop has handed out -c and after it -E and -print-prog-name,
\* and the type is COMPILE.
C24_Witness ==
    /\ pc = "loop"
    /\ Tail(gcc_command) = <<"-c", "-E", "-print-prog-name=ld">>
    /\ it = 3
    /\ details.action_type = "COMPILE"

\* Reached: -E has set PREPROCESS, no -c before it.
C24_PreprocessSet ==
    /\ pc = "loop"
    /\ Tail(gcc_command) = <<"-print-prog-name=ld", "-E", "-c">>
    /\ it = 2
    /\ details.action_type = "PREPROCESS"

\* C29 as stated: the flag loop ends normally on every command, also on one
\* whose last flag takes a parameter that is not there: no exception leaves
\* parse_options.
C29_FlagLoopEndsNormally == pc /= "raised"

(***************************************************************************)
(* --sysroot=<value> (under SpecPaths).                                    *)
(***************************************************************************)
\* C25 as stated: of the token --sysroot=<value> the analyzer options hold
\* the two tokens --sysroot and the absolute path of the value, and no
\* token with the = sign, in the chain of a Clang and in that of a GCC.
C25_SysrootSplitInBothChains ==
    \A i \in 1..Len(path_calls) :
        (path_case.flag = "--sysroot" /\ path_calls[i].form = "together") =>
            /\ path_calls[i].exc = ""
            /\ \E k \in 1..(Len(path_calls[i].action.analyzer_options) - 1) :
                  /\ path_calls[i].action.analyzer_options[k] = "--sysroot"
                  /\ path_calls[i].action.analyzer_options[k + 1] =
                         Normpath(PathJoin("/proj", path_case.value))
            /\ \A k \in 1..Len(path_calls[i].action.analyzer_options) :
                  ~StartsWith(path_calls[i].action.analyzer_options[k], "--sysroot=")

\* The same in the chain of a Clang alone (holds).
SysrootSplitByClang ==
    path_case.compiler = "clang" => C25_SysrootSplitInBothChains

(***************************************************************************)
(* The flags that are dropped with their parameters (under SpecIgnored).   *)
(***************************************************************************)
\* The number of parameters of the flags of this kind among IgnoredFlags.
ParameterCount(token) ==
    IF token = "--param" THEN 1
    ELSE IF token = "-sectorder" THEN 3
    ELSE IF token = "-framework" THEN 1
    ELSE 0

\* The positions of the flags of this kind that the loop handed out, and of
\* their parameters.
IgnoredPositions ==
    UNION {k..(k + ParameterCount(Tail(gcc_command)[k])) :
              k \in {i \in items : ParameterCount(Tail(gcc_command)[i]) > 0}}

\* The tokens from the k-th on without those at these positions.
RECURSIVE WithoutIgnored(_, _)
WithoutIgnored(args, k) ==
    IF k > Len(args) THEN <<>>
    ELSE (IF k \in IgnoredPositions THEN <<>> ELSE <<args[k]>>)
         \o WithoutIgnored(args, k + 1)

\* A turn of the loop on such a flag with all its parameters after it leaves
\* the details as they are and goes on after the last parameter.
IgnoredTurn ==
    (/\ pc = "loop"
     /\ it' /= it
     /\ ParameterCount(Tail(gcc_command)[it + 1]) > 0
     /\ it + 1 + ParameterCount(Tail(gcc_command)[it + 1]) <= Len(Tail(gcc_command)))
    => /\ details' = details
       /\ it' = it + 1 + ParameterCount(Tail(gcc_command)[it + 1])
       /\ pc' = "loop"

\* The returned action is that of the command without these flags and
\* their parameters, but for the original command.
IgnoredHaveNoEffect ==
    pc = "returned" =>
        LET rest == [entry EXCEPT !.arguments =
                        <<gcc_command[1]>> \o WithoutIgnored(Tail(gcc_command), 1)]
            alone == parse_options(rest, EmptyDict, EmptyDict, EmptyDict).action
        IN details = [alone EXCEPT !.original_command = details.original_command]

\* C27: in the chain of a GCC a flag of the table of ignored flags with N
\* parameters is dropped with the N tokens after it: the turn of the loop on
\* it changes nothing of the details (analyzer options, type, output,
\* architecture, language) and the loop goes on with the token after the N,
\* so that the returned action is that of the command without the N + 1
\* tokens.
C27_DroppedWithParameters == []IgnoredHaveNoEffect /\ [][IgnoredTurn]_vars

\* Reached: -sectorder took -c, -o and --param with it, and -O2 after them
\* was kept.
C27_Witness ==
    /\ pc = "returned"
    /\ gcc_command = <<"gcc", "-sectorder", "-c", "-o", "--param", "-O2">>
    /\ details.analyzer_options = <<"-O2">>
    /\ details.output = ""

\* Reached: --param has taken -c, and no type is set.
C27_ParamTookDashC ==
    /\ pc = "loop"
    /\ Tail(gcc_command) = <<"--param", "-c">>
    /\ it = 2
    /\ details.action_type = None

====
